---- MODULE Spec2Model ----
(***************************************************************************)
(* The schema-driven object/JSON marshalling engine of the xmatters        *)
(* package: XmattersBase (construction in dictionary, positional and       *)
(* keyword mode, required-argument check, equality), XmattersJSONEncoder   *)
(* (encoding) and XmattersList (collections), as state machine over one    *)
(* call: the call is drawn in Init, the entry point runs, the returned     *)
(* object is encoded with its json property and the text is decoded again. *)
(*                                                                         *)
(* Python values are tagged tuples:                                        *)
(*   <<"int", n>>  <<"bool", b>>  <<"str", s>>  <<"NoneType", 0>>          *)
(*   <<"dict", pairs>>     pairs: sequence of <<key, value>>, keys unique, *)
(*                         in insertion order (a Python dict)              *)
(*   <<"list", items>>                                                     *)
(*   <<"enum", E, m>>      member m of Enum class E                        *)
(*   <<"type", T>>         a class object                                  *)
(*   <<"obj", C, pairs>>   instance of class C, pairs is its __dict__      *)
(*   <<"xlist", L, items>> instance of the XmattersList subclass L         *)
(* A JSON text is a sequence of tokens: <<"p", c>> for the punctuation     *)
(* and the blank, scalar values for literals.                              *)
(***************************************************************************)
EXTENDS Integers, Sequences, FiniteSets, TLC

VARIABLES pc, call, ret, text, back

vars == <<pc, call, ret, text, back>>

RECURSIVE XmattersBase_init(_, _, _)
RECURSIVE Instantiate(_, _, _)
RECURSIVE XmattersList_from_json_obj(_, _)
RECURSIVE _setattr(_, _, _, _)
RECURSIVE PyEq(_, _)
RECURSIVE Dumps(_, _, _)
RECURSIVE EqLoop(_, _, _)
RECURSIVE SeqEq(_, _, _)
RECURSIVE DictEq(_, _, _)

(***************************************************************************)
(* Bounds of the explored calls.                                           *)
(***************************************************************************)
\* positional plus named inputs of one constructor call
MaxInputs == 4
\* keys of the raw mapping handed to dictionary mode
MaxKeys == 4
\* elements of the raw array handed to a collection
MaxItems == 2
\* named inputs of one constructor call
MaxKwargs == 2
\* raw values tried under one key
MaxSamples == 4
\* the entries of a declared sequence
MaxFields == 2

(***************************************************************************)
(* Python values.                                                          *)
(***************************************************************************)
None == <<"NoneType", 0>>
PyInt(n) == <<"int", n>>
PyBool(b) == <<"bool", b>>
PyStr(s) == <<"str", s>>
PyDict(pairs) == <<"dict", pairs>>
PyList(items) == <<"list", items>>
Member(E, m) == <<"enum", E, m>>
Type(T) == <<"type", T>>

Ok(v) == <<"ok", v>>
Raise(kind, info) == <<"exc", kind, info>>
IsOk(r) == r[1] = "ok"
Val(r) == r[2]

\* type(value).__name__
TypeOf(v) ==
    IF v[1] \in {"enum", "obj", "xlist"} THEN v[2] ELSE v[1]

(***************************************************************************)
(* A Python dict as a sequence of <<key, value>> pairs.                    *)
(***************************************************************************)
Keys(d) == [i \in 1..Len(d) |-> d[i][1]]
InSeq(x, s) == \E i \in 1..Len(s) : s[i] = x
HasKey(d, k) == \E i \in 1..Len(d) : d[i][1] = k
Get(d, k) == d[CHOOSE i \in 1..Len(d) : d[i][1] = k][2]
\* d[k] = v: an existing key keeps its position
Put(d, k, v) ==
    IF HasKey(d, k)
    THEN [i \in 1..Len(d) |-> IF d[i][1] = k THEN <<k, v>> ELSE d[i]]
    ELSE Append(d, <<k, v>>)
Min(a, b) == IF a < b THEN a ELSE b
\* dict(zip(ks, vs)): the shorter sequence decides, a repeated key keeps its
\* first position and its last value
RECURSIVE DictZip(_, _, _)
DictZip(ks, vs, n) ==
    IF n = 0 THEN <<>> ELSE Put(DictZip(ks, vs, n - 1), ks[n], vs[n])
Zip(ks, vs) == DictZip(ks, vs, Min(Len(ks), Len(vs)))

(***************************************************************************)
(* The declarations: Enum classes, entity classes with their four parallel *)
(* sequences, XmattersList subclasses.  A declared argument name is kept   *)
(* as its first character being '*' (star) and the name after it.          *)
(***************************************************************************)
Req(n) == [star |-> FALSE, name |-> n]
Opt(n) == [star |-> TRUE, name |-> n]

\* member name -> value
Enums ==
    [ConferenceHostType |-> << <<"BRIDGE", PyStr("BRIDGE")>>,
                               <<"EXTERNAL", PyStr("EXTERNAL")>> >>,
     RecipientType |-> << <<"GROUP", PyStr("GROUP")>>,
                          <<"PEOPLE", PyStr("PEOPLE")>>,
                          <<"DEVICE", PyStr("DEVICE")>>,
                          <<"DYNAMIC_TEAM", PyStr("DYNAMIC_TEAM")>> >>,
     RecipientStatus |-> << <<"ACTIVE", PyStr("ACTIVE")>>,
                            <<"INACTIVE", PyStr("INACTIVE")>> >>,
     DeviceType |-> << <<"ANDROID_PUSH", PyStr("ANDROID_PUSH")>>,
                       <<"APPLE_PUSH", PyStr("APPLE_PUSH")>>,
                       <<"BLACKBERRY_PUSH", PyStr("BLACKBERRY_PUSH")>>,
                       <<"EMAIL", PyStr("EMAIL")>>,
                       <<"FAX", PyStr("FAX")>>,
                       <<"GENERIC", PyStr("GENERIC")>>,
                       <<"TEXT_PAGER", PyStr("TEXT_PAGER")>>,
                       <<"TEXT_PHONE", PyStr("TEXT_PHONE")>>,
                       <<"VOICE", PyStr("VOICE")>>,
                       <<"VOICE_IVR", PyStr("VOICE_IVR")>> >>,
     PriorityThreshold |-> << <<"LOW", PyStr("LOW")>>,
                              <<"MEDIUM", PyStr("MEDIUM")>>,
                              <<"HIGH", PyStr("HIGH")>> >>,
     TestStatus |-> << <<"UNTESTED", PyStr("UNTESTED")>>,
                       <<"PENDING", PyStr("PENDING")>>,
                       <<"TESTED", PyStr("TESTED")>> >>]

\* module: the module whose XmattersBase the class derives from
\* (xmatters.XmattersBase is xmatters.base.XmattersBase; the classes of
\* common.py derive from the XmattersBase defined in common.py)
Schemas ==
    [ErrorTest |->
        [module |-> "base", bases |-> {},
         _arg_names |-> <<Req("code"), Req("reason"), Req("message")>>,
         _attr_names |-> <<"code", "reason", "message">>,
         _json_names |-> <<"code", "reason", "message">>,
         _attr_types |-> <<"int", "str", "str">>],
     Error |->
        [module |-> "common", bases |-> {},
         _arg_names |-> <<Req("code"), Req("reason"), Req("message")>>,
         _attr_names |-> <<"code", "reason", "message">>,
         _json_names |-> <<"code", "reason", "message">>,
         _attr_types |-> <<"int", "str", "str">>],
     Conference |->
        [module |-> "base", bases |-> {},
         _arg_names |-> <<Req("bridge_id"), Req("type")>>,
         _attr_names |-> <<"bridge_id", "type">>,
         _json_names |-> <<"bridgeId", "type">>,
         _attr_types |-> <<"str", "ConferenceHostType">>],
     RecipientPointer |->
        [module |-> "base", bases |-> {},
         _arg_names |-> <<Req("id"), Opt("recipient_type")>>,
         _attr_names |-> <<"id", "recipient_type">>,
         _json_names |-> <<"id", "recipientType">>,
         _attr_types |-> <<"str", "str">>],
     PersonReference |->
        [module |-> "base", bases |-> {},
         _arg_names |-> <<Req("id"), Req("target_name"), Req("links")>>,
         _attr_names |-> <<"id", "target_name", "links">>,
         _json_names |-> <<"id", "targetName", "links">>,
         _attr_types |-> <<"str", "str", "SelfLink">>],
     Recipient |->
        [module |-> "base", bases |-> {},
         _arg_names |-> <<Req("id"), Req("target_name"), Req("recipient_type"),
                          Req("externally_owned"), Opt("external_key"),
                          Opt("locked"), Opt("status"), Opt("links")>>,
         _attr_names |-> <<"id", "target_name", "recipient_type",
                           "externally_owned", "external_key", "locked",
                           "status", "links">>,
         _json_names |-> <<"id", "targetName", "recipientType",
                           "externallyOwned", "externalKey", "locked",
                           "status", "links">>,
         _attr_types |-> <<"str", "str", "RecipientType", "bool", "str", "list",
                           "RecipientStatus", "SelfLink">>],
     DynamicTeam |->
        [module |-> "base", bases |-> {"Recipient"},
         _arg_names |-> <<Req("id"), Req("target_name"), Req("recipient_type"),
                          Req("externally_owned"), Req("use_emergency_device"),
                          Opt("external_key"), Opt("locked"), Opt("status"),
                          Opt("links")>>,
         _attr_names |-> <<"id", "target_name", "recipient_type",
                           "externally_owned", "use_emergency_device",
                           "external_key", "locked", "status", "links">>,
         _json_names |-> <<"id", "targetName", "recipientType",
                           "externallyOwned", "useEmergencyDevice",
                           "externalKey", "locked", "status", "links">>,
         _attr_types |-> <<"str", "str", "RecipientType", "bool", "bool", "str",
                           "list", "RecipientStatus", "SelfLink">>],
     SelfLink |->
        [module |-> "common", bases |-> {},
         _arg_names |-> <<Req("self_link")>>,
         _attr_names |-> <<"self">>,
         _json_names |-> <<"self">>,
         _attr_types |-> <<"str">>],
     PaginationLinks |->
        [module |-> "common", bases |-> {},
         _arg_names |-> <<Req("self_link"), Opt("previous_link"),
                          Opt("next_link")>>,
         _attr_names |-> <<"self", "previous", "next">>,
         _json_names |-> <<"self", "previous", "next">>,
         _attr_types |-> <<"str", "str", "str">>],
     ReferenceByIdAndSelfLink |->
        [module |-> "common", bases |-> {},
         _arg_names |-> <<Req("id"), Req("links")>>,
         _attr_names |-> <<"id", "links">>,
         _json_names |-> <<"id", "links">>,
         _attr_types |-> <<"str", "SelfLink">>],
     Pagination |->
        [module |-> "common", bases |-> {},
         _arg_names |-> <<Req("count"), Req("data"), Req("links"),
                          Req("total")>>,
         _attr_names |-> <<"count", "data", "links", "total">>,
         _json_names |-> <<"count", "data", "links", "total">>,
         _attr_types |-> <<"int", "list", "PaginationLinks", "int">>],
     ReferenceById |->
        [module |-> "common", bases |-> {},
         _arg_names |-> <<Req("id")>>,
         _attr_names |-> <<"id">>,
         _json_names |-> <<"id">>,
         _attr_types |-> <<"str">>],
     DeviceTimeframe |->
        [module |-> "base", bases |-> {},
         _arg_names |-> <<Req("name"), Req("start_time"),
                          Req("duration_in_minutes"), Req("days"),
                          Req("exclude_holidays"), Req("timezone")>>,
         _attr_names |-> <<"name", "start_time", "duration_in_minutes", "days",
                           "exclude_holidays", "timezone">>,
         _json_names |-> <<"name", "startTime", "durationInMinutes", "days",
                           "excludeHolidays", "timezone">>,
         _attr_types |-> <<"str", "str", "int", "list", "bool", "str">>],
     EmailDevice |->
        [module |-> "base", bases |-> {"Device", "Recipient"},
         _arg_names |-> <<Req("id"), Req("target_name"), Req("recipient_type"),
                          Req("externally_owned"), Req("default_device"),
                          Req("delay"), Req("description"), Req("device_type"),
                          Req("name"), Req("owner"), Req("priority_threshold"),
                          Req("provider"), Req("sequence"), Req("test_status"),
                          Req("email_address"), Opt("external_key"),
                          Opt("locked"), Opt("status"), Opt("links"),
                          Opt("timeframes")>>,
         _attr_names |-> <<"id", "target_name", "recipient_type",
                           "externally_owned", "default_device", "delay",
                           "description", "device_type", "name", "owner",
                           "priority_threshold", "provider", "sequence",
                           "test_status", "email_address", "external_key",
                           "locked", "status", "links", "timeframes">>,
         _json_names |-> <<"id", "targetName", "recipientType",
                           "externallyOwned", "defaultDevice", "delay",
                           "description", "deviceType", "name", "owner",
                           "priorityThreshold", "provider", "sequence",
                           "testStatus", "emailAddress", "externalKey",
                           "locked", "status", "links", "timeframes">>,
         _attr_types |-> <<"str", "str", "RecipientType", "bool", "bool", "int",
                           "str", "DeviceType", "str", "PersonReference",
                           "PriorityThreshold", "ReferenceById", "str",
                           "TestStatus", "str", "str", "list",
                           "RecipientStatus", "SelfLink",
                           "DeviceTimeframeList">>]]

\* module: the module whose XmattersList the class derives from
Lists ==
    [TestList |-> [module |-> "base", base_class |-> Type("ErrorTest")],
     BadTestList1 |-> [module |-> "base", base_class |-> None],
     BadTestList2 |-> [module |-> "base", base_class |-> Type("object")],
     RecipientList |-> [module |-> "base", base_class |-> Type("Recipient")],
     DeviceTimeframeList |->
        [module |-> "base", base_class |-> Type("DeviceTimeframe")]]

\* the names of the entity classes and of the collection classes
Classes ==
    {"ErrorTest", "Error", "Conference", "RecipientPointer", "PersonReference",
     "Recipient", "DynamicTeam", "SelfLink", "PaginationLinks",
     "ReferenceByIdAndSelfLink", "Pagination", "ReferenceById",
     "DeviceTimeframe", "EmailDevice"}
ListClasses ==
    {"TestList", "BadTestList1", "BadTestList2", "RecipientList",
     "DeviceTimeframeList"}

\* issubclass(T, Enum)
IsEnumClass(T) ==
    T \in {"ConferenceHostType", "RecipientType", "RecipientStatus",
           "DeviceType", "PriorityThreshold", "TestStatus"}
\* issubclass(T, XmattersBase), XmattersBase being the one of module m
IsXmattersBaseClass(T, m) == T \in Classes /\ Schemas[T].module = m
\* issubclass(T, XmattersList), XmattersList being the one of module m
IsXmattersListClass(T, m) == T \in ListClasses /\ Lists[T].module = m
\* issubclass(T, list)
IsListClass(T) == T = "list" \/ T \in ListClasses
\* issubclass(A, B)
IsSubclass(A, B) ==
    \/ A = B
    \/ A \in Classes /\ B \in Schemas[A].bases
    \/ A \in ListClasses /\ B = "list"
    \/ A = "bool" /\ B = "int"
    \/ B = "object"
\* isinstance(value, T)
IsInstance(v, T) == IsSubclass(TypeOf(v), T)

(***************************************************************************)
(* Calls of classes that are not entity classes.                           *)
(***************************************************************************)
\* a faulty lookup: a value that no member has yields the first member
LenientEnumCall(E, value) ==
    IF value[1] = "enum" /\ value[2] = E THEN Ok(value)
    ELSE LET hits == {i \in 1..Len(Enums[E]) : Enums[E][i][2] = value}
         IN  Ok(Member(E, Enums[E][IF hits # {} THEN CHOOSE i \in hits : TRUE
                                   ELSE 1][1]))

\* E(value) for an Enum class E: the member itself, or the member whose
\* value is `value`; ValueError when there is none
ByValue(E, members, value) ==
    IF \E i \in 1..Len(members) : members[i][2] = value
    THEN Ok(Member(E, members[CHOOSE i \in 1..Len(members) :
                                members[i][2] = value][1]))
    ELSE Raise("ValueError", <<"is not a valid", E>>)
EnumCall(E, value) ==
    IF value[1] = "enum" /\ value[2] = E THEN Ok(value)
    ELSE ByValue(E, Enums[E], value)

\* T(value) for a builtin class T and a dict value
BuiltinCall(T, value) ==
    CASE T = "dict" -> Ok(value)
      [] T = "list" -> Ok(PyList([i \in 1..Len(value[2]) |-> PyStr(value[2][i][1])]))
      [] T = "bool" -> Ok(PyBool(Len(value[2]) > 0))
      [] T = "str" -> Ok(PyStr("repr"))
      [] OTHER -> Raise("TypeError", <<"call", T>>)

(***************************************************************************)
(* XmattersBase: the lookup dictionaries kept on the instance.             *)
(***************************************************************************)
StrSeq(s) == [i \in 1..Len(s) |-> PyStr(s[i])]
argdict(d) == Get(d, "__arg_dict")[2]
reqargs(d) == Get(d, "__req_args_dict")[2]
attrdict(d) == Get(d, "__attr_dict")[2]
typedict(d) == Get(d, "__type_dict")[2]
jsondict(d) == Get(d, "__json_dict")[2]

_process_arg_names(names) ==
    [arg_names |-> [i \in 1..Len(names) |-> names[i].name],
     req_args |-> [i \in 1..Len(names) |-> ~names[i].star]]

_build_arg_dicts(d, arg_names, req_args, attr_names) ==
    LET flags == [i \in 1..Len(req_args) |-> PyBool(req_args[i])]
        d1 == Put(d, "__arg_dict", PyDict(Zip(arg_names, StrSeq(attr_names))))
    IN  Put(d1, "__req_args_dict", PyDict(Zip(arg_names, flags)))

_build_attr_dicts(d, attr_names, attr_types, json_names) ==
    LET types == [i \in 1..Len(attr_types) |-> Type(attr_types[i])]
        d1 == Put(d, "__attr_dict", PyDict(Zip(attr_names, StrSeq(json_names))))
        d2 == Put(d1, "__type_dict", PyDict(Zip(attr_names, types)))
    IN  Put(d2, "__json_dict", PyDict(Zip(json_names, StrSeq(attr_names))))

\* for name in attr_names: setattr(self, name, None)
RECURSIVE InitAttrs(_, _)
InitAttrs(attr_names, n) ==
    IF n = 0 THEN <<>> ELSE Put(InitAttrs(attr_names, n - 1), attr_names[n], None)

(***************************************************************************)
(* XmattersBase._setattr and _is_proper_type.  c is the class of self, d   *)
(* its __dict__; the result is the new __dict__ or the exception raised.   *)
(***************************************************************************)
\* the value _setattr stores for an attribute of type T of a class of
\* module m, or the exception its conversion raises
Converted(m, T, value) ==
    IF IsEnumClass(T) THEN EnumCall(T, value)
    ELSE IF IsXmattersListClass(T, m)
    THEN XmattersList_from_json_obj(T, value)
    ELSE IF IsInstance(value, "dict")
    \* isinstance(self.typedict[name], dict) is False: a class
    THEN IF T \in Classes THEN Instantiate(T, <<value>>, <<>>)
         ELSE BuiltinCall(T, value)
    ELSE Ok(value)

\* setattr(self, name, new), unless the conversion raised
Stored(d, name, new) == IF IsOk(new) THEN Ok(Put(d, name, Val(new))) ELSE new

_setattr(c, d, name, value) ==
    Stored(d, name, Converted(Schemas[c].module, Get(typedict(d), name)[2], value))

_is_proper_type(c, d, attr, value) ==
    LET m == Schemas[c].module
        attr_type == Get(typedict(d), attr)[2]
        value_type == TypeOf(value)
        is_xtype == IsXmattersBaseClass(attr_type, m) /\ value_type = "dict"
        is_enum == IsEnumClass(attr_type) /\ value_type = "str"
        is_list == IsListClass(attr_type) /\ value_type = "list"
    IN  is_xtype \/ is_enum \/ is_list \/ value_type = attr_type

(***************************************************************************)
(* The three argument loops and the final check.                           *)
(***************************************************************************)
\* the loop `for key in dictionary` from the i-th key on; r is the
\* __dict__ so far, or the exception that has ended the loop
RECURSIVE DictionaryLoop(_, _, _, _, _)
DictionaryLoop(c, r, json_names, dictionary, i) ==
    IF ~IsOk(r) \/ i > Len(dictionary) THEN r
    ELSE IF ~InSeq(dictionary[i][1], json_names)
    THEN DictionaryLoop(c, r, json_names, dictionary, i + 1)
    ELSE IF ~_is_proper_type(c, Val(r), Get(jsondict(Val(r)), dictionary[i][1])[2],
                             dictionary[i][2])
    THEN Raise("TypeError", <<"JSON Attribute", c, dictionary[i][1]>>)
    ELSE DictionaryLoop(c, _setattr(c, Val(r),
                                    Get(jsondict(Val(r)), dictionary[i][1])[2],
                                    dictionary[i][2]),
                        json_names, dictionary, i + 1)

\* a faulty dictionary mode: it refuses a key that is no declared wire name
StrictDictionaryArgs(c, d, json_names, args) ==
    LET dictionary == args[1][2]
        unknown == {i \in 1..Len(dictionary) : ~InSeq(dictionary[i][1], json_names)}
    IN  IF unknown # {}
        THEN Raise("TypeError", <<"JSON Attribute", c,
                                  dictionary[CHOOSE i \in unknown : TRUE][1]>>)
        ELSE DictionaryLoop(c, Ok(d), json_names, dictionary, 1)

\* a faulty dictionary mode: a key whose value is None is passed over as if
\* the mapping did not hold it
NullTolerantDictionaryArgs(c, d, json_names, args) ==
    DictionaryLoop(c, Ok(d), json_names,
                   SelectSeq(args[1][2], LAMBDA kv : kv[2] # None), 1)

\* for dictionary in args: args holds the one mapping
__process_dictionary_args(c, d, json_names, args) ==
    DictionaryLoop(c, Ok(d), json_names, args[1][2], 1)

\* the loop `for value in args` from the i-th value on; key is i - 1 and r
\* the __dict__ so far, or the exception that has ended the loop
RECURSIVE PositionalLoop(_, _, _, _, _, _)
PositionalLoop(c, r, attr_names, attr_types, args, i) ==
    IF ~IsOk(r) \/ i > Len(args) THEN r
    ELSE IF i > Len(attr_types) \/ i > Len(attr_names)
    THEN Raise("IndexError", <<"list index out of range">>)
    ELSE IF ~IsInstance(args[i], attr_types[i])
    THEN Raise("TypeError", <<"position", c, i - 1>>)
    ELSE PositionalLoop(c, _setattr(c, Val(r), attr_names[i], args[i]),
                        attr_names, attr_types, args, i + 1)

\* a faulty positional mode: key is never advanced
RECURSIVE StuckKeyLoop(_, _, _, _, _, _)
StuckKeyLoop(c, r, attr_names, attr_types, args, i) ==
    IF ~IsOk(r) \/ i > Len(args) THEN r
    ELSE IF ~IsInstance(args[i], attr_types[1])
    THEN Raise("TypeError", <<"position", c, 0>>)
    ELSE StuckKeyLoop(c, _setattr(c, Val(r), attr_names[1], args[i]),
                      attr_names, attr_types, args, i + 1)
StuckKeyPositionalArgs(c, d, attr_names, attr_types, args) ==
    StuckKeyLoop(c, Ok(d), attr_names, attr_types, args, 1)

\* a faulty positional mode: it holds a value against the rule of dictionary
\* mode
RECURSIVE RelaxedLoop(_, _, _, _, _, _)
RelaxedLoop(c, r, attr_names, attr_types, args, i) ==
    IF ~IsOk(r) \/ i > Len(args) THEN r
    ELSE IF i > Len(attr_types) \/ i > Len(attr_names)
    THEN Raise("IndexError", <<"list index out of range">>)
    ELSE IF ~_is_proper_type(c, Val(r), attr_names[i], args[i])
    THEN Raise("TypeError", <<"position", c, i - 1>>)
    ELSE RelaxedLoop(c, _setattr(c, Val(r), attr_names[i], args[i]),
                     attr_names, attr_types, args, i + 1)
RelaxedPositionalArgs(c, d, attr_names, attr_types, args) ==
    RelaxedLoop(c, Ok(d), attr_names, attr_types, args, 1)

__process_positional_args(c, d, attr_names, attr_types, args) ==
    PositionalLoop(c, Ok(d), attr_names, attr_types, args, 1)

\* the loop `for key in kwargs` from the i-th named input on; r is the
\* __dict__ so far, or the exception that has ended the loop
RECURSIVE KeywordLoop(_, _, _, _, _)
KeywordLoop(c, r, arg_names, kwargs, i) ==
    IF ~IsOk(r) \/ i > Len(kwargs) THEN r
    ELSE IF ~InSeq(kwargs[i][1], arg_names)
    THEN KeywordLoop(c, r, arg_names, kwargs, i + 1)
    ELSE IF ~IsInstance(kwargs[i][2],
                        Get(typedict(Val(r)),
                            Get(argdict(Val(r)), kwargs[i][1])[2])[2])
    THEN Raise("TypeError", <<"Keyword argument", c, kwargs[i][1]>>)
    ELSE KeywordLoop(c, _setattr(c, Val(r), Get(argdict(Val(r)), kwargs[i][1])[2],
                                 kwargs[i][2]),
                     arg_names, kwargs, i + 1)

__process_keyword_args(c, d, arg_names, kwargs) ==
    KeywordLoop(c, Ok(d), arg_names, kwargs, 1)

\* a faulty collection of missing_args: it stops at the first one
RECURSIVE FirstMissingArg(_, _, _)
FirstMissingArg(d, arg_names, n) ==
    IF n = 0 THEN <<>>
    ELSE LET key == arg_names[n]
             before == FirstMissingArg(d, arg_names, n - 1)
             attr == Get(argdict(d), key)[2]
         IN  IF before = <<>> /\ Get(reqargs(d), key)[2] /\ Get(d, attr) = None
             THEN <<attr>>
             ELSE before

\* missing_args, in the order of arg_names
RECURSIVE MissingArgs(_, _, _)
MissingArgs(d, arg_names, n) ==
    IF n = 0 THEN <<>>
    ELSE LET key == arg_names[n]
             before == MissingArgs(d, arg_names, n - 1)
             attr == Get(argdict(d), key)[2]
         IN  IF Get(reqargs(d), key)[2] /\ Get(d, attr) = None
             THEN Append(before, attr)
             ELSE before

\* a faulty final check: it lets every instance through
NeverMissing(c, d, arg_names) == Ok(d)

\* if missing_args: raise TypeError
Refused(c, d, missing_args) ==
    IF missing_args # <<>>
    THEN Raise("TypeError", <<"Missing arguments", c, missing_args>>)
    ELSE Ok(d)

__confirm_required_args(c, d, arg_names) ==
    Refused(c, d, MissingArgs(d, arg_names, Len(arg_names)))

(***************************************************************************)
(* XmattersBase.__init__ of class c, called with the positional inputs    *)
(* args and the named inputs kwargs: the instance, or the exception that   *)
(* leaves the constructor.                                                 *)
(***************************************************************************)
\* the statements of __init__ in their order, each handed what the one
\* before it has left: the attributes and the four lookup tables, ...
Tables(cls, arg_names, req_args) ==
    _build_attr_dicts(_build_arg_dicts(InitAttrs(cls._attr_names,
                                                 Len(cls._attr_names)),
                                       arg_names, req_args, cls._attr_names),
                      cls._attr_names, cls._attr_types, cls._json_names)

\* a faulty choice of the mode: a leading mapping is enough for dictionary
\* processing
LeadingMappingUnnamed(c, cls, d, args) ==
    IF Len(args) >= 1 /\ IsInstance(args[1], "dict")
    THEN __process_dictionary_args(c, d, cls._json_names, args)
    ELSE IF Len(args) > 0
    THEN __process_positional_args(c, d, cls._attr_names, cls._attr_types, args)
    ELSE Ok(d)

\* ... the mapping or the positional inputs, ...
Unnamed(c, cls, d, args) ==
    IF Len(args) = 1 /\ IsInstance(args[1], "dict")
    THEN __process_dictionary_args(c, d, cls._json_names, args)
    ELSE IF Len(args) > 0
    THEN __process_positional_args(c, d, cls._attr_names, cls._attr_types, args)
    ELSE Ok(d)

\* ... the named inputs, ...
Named(c, r, arg_names, kwargs) ==
    IF IsOk(r) THEN __process_keyword_args(c, Val(r), arg_names, kwargs) ELSE r

\* ... the final check, ...
Confirmed(c, r, arg_names) ==
    IF IsOk(r) THEN __confirm_required_args(c, Val(r), arg_names) ELSE r

\* ... and the instance that is returned when nothing was raised
Instance(c, r) == IF IsOk(r) THEN Ok(<<"obj", c, Val(r)>>) ELSE r

\* a faulty __init__: the final check runs before the named inputs are
\* applied
ConfirmedEarly(c, cls, arg_names, req_args, args, kwargs) ==
    Instance(c, Named(c, Confirmed(c, Unnamed(c, cls, Tables(cls, arg_names, req_args),
                                              args),
                                   arg_names),
                      arg_names, kwargs))

\* a faulty __init__: the named inputs are applied first, the mapping or the
\* positional inputs after them
Later(c, cls, r, args) == IF IsOk(r) THEN Unnamed(c, cls, Val(r), args) ELSE r
NamedEarly(c, cls, arg_names, req_args, args, kwargs) ==
    Instance(c, Confirmed(c, Later(c, cls,
                                   Named(c, Ok(Tables(cls, arg_names, req_args)),
                                         arg_names, kwargs),
                                   args),
                          arg_names))

Built(c, cls, arg_names, req_args, args, kwargs) ==
    Instance(c, Confirmed(c, Named(c, Unnamed(c, cls, Tables(cls, arg_names, req_args),
                                              args),
                                   arg_names, kwargs),
                          arg_names))

XmattersBase_init(c, args, kwargs) ==
    Built(c, Schemas[c], _process_arg_names(Schemas[c]._arg_names).arg_names,
          _process_arg_names(Schemas[c]._arg_names).req_args, args, kwargs)

\* the defaults DynamicTeam.__init__ sets once XmattersBase.__init__ has
\* returned
Defaulted(self) ==
    <<"obj", self[2],
      [i \in 1..Len(self[3]) |->
         IF self[3][i][1] = "recipient_type" /\ self[3][i][2] = None
         THEN <<"recipient_type", Member("RecipientType", "DYNAMIC_TEAM")>>
         ELSE IF self[3][i][1] = "status" /\ self[3][i][2] = None
         THEN <<"status", Member("RecipientStatus", "ACTIVE")>>
         ELSE self[3][i]]>>
AfterSuper(r) == IF IsOk(r) THEN Ok(Defaulted(Val(r))) ELSE r
DynamicTeam_init(args, kwargs) ==
    AfterSuper(XmattersBase_init("DynamicTeam", args, kwargs))

\* c(*args, **kwargs): the __init__ the class c resolves to
Instantiate(c, args, kwargs) ==
    IF c = "DynamicTeam" THEN DynamicTeam_init(args, kwargs)
    ELSE XmattersBase_init(c, args, kwargs)

from_json_obj(c, json_self) == Instantiate(c, <<json_self>>, <<>>)

(***************************************************************************)
(* XmattersList.                                                           *)
(***************************************************************************)
\* the items `for x in value` yields; a string is never handed to a
\* collection by the calls explored here
Iterate(value) ==
    CASE value[1] = "list" -> Ok(value[2])
      [] value[1] = "xlist" -> Ok(value[3])
      [] value[1] = "dict" ->
            Ok([i \in 1..Len(value[2]) |-> PyStr(value[2][i][1])])
      [] value[1] \in {"int", "bool", "NoneType", "enum", "obj"} ->
            Raise("TypeError", <<"object is not iterable">>)

\* a faulty initializer: base_class is not looked at
UncheckedListInit(L, args) ==
    LET items == IF Len(args) = 0 THEN Ok(<<>>)
                 ELSE IF Len(args) = 1 THEN Iterate(args[1])
                 ELSE Raise("TypeError", <<"list expected at most 1 argument">>)
    IN  IF IsOk(items) THEN Ok(<<"xlist", L, Val(items)>>) ELSE items

XmattersList_init(L, args) ==
    LET items == IF Len(args) = 0 THEN Ok(<<>>)
                 ELSE IF Len(args) = 1 THEN Iterate(args[1])
                 ELSE Raise("TypeError", <<"list expected at most 1 argument">>)
        base_class == Lists[L].base_class
    IN  IF ~IsOk(items) THEN items
        ELSE IF base_class[1] # "type"
        THEN Raise("TypeError", <<"issubclass() arg 1 must be a class">>)
        ELSE IF ~IsXmattersBaseClass(base_class[2], Lists[L].module)
        THEN Raise("TypeError", <<"base_class", L>>)
        ELSE Ok(<<"xlist", L, Val(items)>>)

\* cls.base_class(jobj)
BaseClassCall(base_class, jobj) ==
    IF base_class[1] # "type"
    THEN Raise("TypeError", <<"'NoneType' object is not callable">>)
    ELSE IF base_class[2] \in Classes
    THEN Instantiate(base_class[2], <<jobj>>, <<>>)
    ELSE Raise("TypeError", <<"object() takes no arguments">>)

\* a faulty comprehension: an item that base_class refuses is left out
RECURSIVE SkippingComprehension(_, _, _, _)
SkippingComprehension(base_class, items, i, done) ==
    IF i > Len(items) THEN Ok(PyList(done))
    ELSE LET r == BaseClassCall(base_class, items[i])
         IN  SkippingComprehension(base_class, items, i + 1,
                                   IF IsOk(r) THEN Append(done, Val(r)) ELSE done)

\* [cls.base_class(jobj) for jobj in json_self] from the i-th item on
RECURSIVE Comprehension(_, _, _, _)
Comprehension(base_class, items, i, done) ==
    IF i > Len(items) THEN Ok(PyList(done))
    ELSE LET r == BaseClassCall(base_class, items[i])
         IN  IF IsOk(r)
             THEN Comprehension(base_class, items, i + 1, Append(done, Val(r)))
             ELSE r

\* bool(value)
Truthy(value) ==
    CASE value[1] = "NoneType" -> FALSE
      [] value[1] = "bool" -> value[2]
      [] value[1] = "int" -> value[2] # 0
      [] value[1] = "str" -> value[2] # ""
      [] value[1] \in {"list", "dict"} -> value[2] # <<>>
      [] OTHER -> TRUE

\* json_self[key] with a string key
Subscript(json_self, key) ==
    IF json_self[1] # "dict"
    THEN Raise("TypeError", <<"indices", TypeOf(json_self)>>)
    ELSE IF ~HasKey(json_self[2], key) THEN Raise("KeyError", <<key>>)
    ELSE Ok(Get(json_self[2], key))

\* the if/elif chain on rtype and the use of new_cls after it, r being what
\* json_self['recipientType'] gives: the branch of "DEVICE" binds nothing,
\* and no branch takes any other truthy value
Chosen(r) ==
    IF ~IsOk(r) THEN r
    ELSE IF ~Truthy(Val(r)) THEN Ok(Type("Recipient"))
    ELSE IF Val(r)[1] # "str" THEN Raise("UnboundLocalError", <<"new_cls">>)
    ELSE CASE Val(r)[2] = "DYNAMIC_TEAM" -> Ok(Type("DynamicTeam"))
           [] Val(r)[2] = "GROUP" -> Ok(Type("Group"))
           [] Val(r)[2] = "PERSON" -> Ok(Type("Person"))
           [] OTHER -> Raise("UnboundLocalError", <<"new_cls">>)
\* RecipientList._get_real_class
_get_real_class(json_self) == Chosen(Subscript(json_self, "recipientType"))

\* cls._get_real_class(jobj)(jobj), r being what _get_real_class returns;
\* the __init__ of Group and of Person takes self alone
RealClassCall(r, jobj) ==
    IF ~IsOk(r) THEN r
    ELSE IF Val(r)[2] \in {"Group", "Person"}
    THEN Raise("TypeError", <<"takes 1 positional argument", Val(r)[2]>>)
    ELSE Instantiate(Val(r)[2], <<jobj>>, <<>>)

\* [cls._get_real_class(jobj)(jobj) for jobj in json_self] from the i-th
\* item on; r is the list so far, or the exception that has ended it
RECURSIVE RealComprehension(_, _, _)
Extended(r, x) == IF IsOk(x) THEN Ok(Append(Val(r), Val(x))) ELSE x
RealComprehension(r, items, i) ==
    IF ~IsOk(r) THEN r
    ELSE IF i > Len(items) THEN Ok(PyList(Val(r)))
    ELSE RealComprehension(Extended(r, RealClassCall(_get_real_class(items[i]),
                                                     items[i])),
                           items, i + 1)

\* cls(bc_default)
Collected(L, bc_default) ==
    IF IsOk(bc_default) THEN XmattersList_init(L, <<Val(bc_default)>>)
    ELSE bc_default
Resolved(L, items) ==
    IF IsOk(items) THEN Collected(L, RealComprehension(Ok(<<>>), Val(items), 1))
    ELSE items
\* RecipientList.from_json_obj
RecipientList_from_json_obj(L, json_self) == Resolved(L, Iterate(json_self))

\* XmattersList.from_json_obj
Plain_from_json_obj(L, json_self) ==
    LET items == Iterate(json_self)
        bc_default == Comprehension(Lists[L].base_class, Val(items), 1, <<>>)
    IN  IF ~IsOk(items) THEN items
        ELSE IF ~IsOk(bc_default) THEN bc_default
        ELSE XmattersList_init(L, <<Val(bc_default)>>)

\* the collection classes that define from_json_obj themselves
Overriding == {"RecipientList"}
\* cls.from_json_obj(json_self) of a collection class
XmattersList_from_json_obj(L, json_self) ==
    IF L \in Overriding THEN RecipientList_from_json_obj(L, json_self)
    ELSE Plain_from_json_obj(L, json_self)

(***************************************************************************)
(* JSON text.  json.dumps with the separators seps and the encoder class   *)
(* enc, json.loads.                                                        *)
(***************************************************************************)
P(c) == <<"p", c>>
CompactSeparators == [item |-> <<P(",")>>, key |-> <<P(":")>>]
DefaultSeparators == [item |-> <<P(","), P(" ")>>, key |-> <<P(":"), P(" ")>>]

\* XmattersJSONEncoder.default
XmattersJSONEncoder_default(obj) ==
    IF obj[1] = "enum" THEN Ok(Get(Enums[obj[2]], obj[3]))
    ELSE IF obj[1] = "obj" /\ IsXmattersBaseClass(obj[2], "base")
    THEN LET d == obj[3]
             jd == jsondict(d)
             kept == SelectSeq(jd, LAMBDA kv : Get(d, kv[2][2]) # None)
         IN  Ok(PyDict([i \in 1..Len(kept) |->
                           <<kept[i][1], Get(d, kept[i][2][2])>>]))
    ELSE Raise("TypeError", <<"is not JSON serializable", TypeOf(obj)>>)

RECURSIVE DumpsItems(_, _, _, _)
RECURSIVE DumpsPairs(_, _, _, _)
Dumps(o, seps, enc) ==
    CASE o[1] \in {"str", "int", "bool", "NoneType"} -> Ok(<<o>>)
      [] o[1] = "list" -> DumpsItems(o[2], 1, seps, enc)
      [] o[1] = "xlist" -> DumpsItems(o[3], 1, seps, enc)
      [] o[1] = "dict" -> DumpsPairs(o[2], 1, seps, enc)
      [] OTHER ->
            LET serial == IF enc = "XmattersJSONEncoder"
                          THEN XmattersJSONEncoder_default(o)
                          ELSE Raise("TypeError",
                                     <<"is not JSON serializable", TypeOf(o)>>)
            IN  IF IsOk(serial) THEN Dumps(Val(serial), seps, enc) ELSE serial

\* the text of a list from its i-th item on, the opening bracket included
DumpsItems(items, i, seps, enc) ==
    IF i > Len(items) THEN Ok(IF i = 1 THEN <<P("["), P("]")>> ELSE <<P("]")>>)
    ELSE LET head == Dumps(items[i], seps, enc)
             tail == DumpsItems(items, i + 1, seps, enc)
             lead == IF i = 1 THEN <<P("[")>> ELSE seps.item
         IN  IF ~IsOk(head) THEN head
             ELSE IF ~IsOk(tail) THEN tail
             ELSE Ok(lead \o Val(head) \o Val(tail))

\* the text of a dict from its i-th pair on, the opening brace included
DumpsPairs(pairs, i, seps, enc) ==
    IF i > Len(pairs) THEN Ok(IF i = 1 THEN <<P("{"), P("}")>> ELSE <<P("}")>>)
    ELSE LET head == Dumps(pairs[i][2], seps, enc)
             tail == DumpsPairs(pairs, i + 1, seps, enc)
             lead == IF i = 1 THEN <<P("{")>> ELSE seps.item
         IN  IF ~IsOk(head) THEN head
             ELSE IF ~IsOk(tail) THEN tail
             ELSE Ok(lead \o <<PyStr(pairs[i][1])>> \o seps.key
                     \o Val(head) \o Val(tail))

\* the index of the first token from i on that is not a blank
RECURSIVE SkipBlank(_, _)
SkipBlank(t, i) ==
    IF i <= Len(t) /\ t[i] = P(" ") THEN SkipBlank(t, i + 1) ELSE i

JSONDecodeError == Raise("JSONDecodeError", <<"Expecting value">>)

\* <<"ok", value, index after it>> or JSONDecodeError
RECURSIVE ParseValue(_, _)
RECURSIVE ParseMembers(_, _, _)
RECURSIVE ParseElements(_, _, _)
ParseValue(t, i0) ==
    LET i == SkipBlank(t, i0)
    IN  IF i > Len(t) THEN JSONDecodeError
        ELSE IF t[i][1] \in {"str", "int", "bool", "NoneType"}
        THEN <<"ok", t[i], i + 1>>
        ELSE IF t[i] = P("{")
        THEN LET j == SkipBlank(t, i + 1)
             IN  IF j <= Len(t) /\ t[j] = P("}")
                 THEN <<"ok", PyDict(<<>>), j + 1>>
                 ELSE ParseMembers(t, j, <<>>)
        ELSE IF t[i] = P("[")
        THEN LET j == SkipBlank(t, i + 1)
             IN  IF j <= Len(t) /\ t[j] = P("]")
                 THEN <<"ok", PyList(<<>>), j + 1>>
                 ELSE ParseElements(t, j, <<>>)
        ELSE JSONDecodeError

\* the members of an object, a key expected at k
ParseMembers(t, k, acc) ==
    IF k > Len(t) \/ t[k][1] # "str" THEN JSONDecodeError
    ELSE LET c == SkipBlank(t, k + 1)
         IN  IF c > Len(t) \/ t[c] # P(":") THEN JSONDecodeError
             ELSE LET v == ParseValue(t, c + 1)
                      n == SkipBlank(t, v[3])
                      acc2 == Put(acc, t[k][2], v[2])
                  IN  IF ~IsOk(v) THEN v
                      ELSE IF n > Len(t) THEN JSONDecodeError
                      ELSE IF t[n] = P(",")
                      THEN ParseMembers(t, SkipBlank(t, n + 1), acc2)
                      ELSE IF t[n] = P("}")
                      THEN <<"ok", PyDict(acc2), n + 1>>
                      ELSE JSONDecodeError

\* the elements of an array, a value expected at k
ParseElements(t, k, acc) ==
    LET v == ParseValue(t, k)
        n == SkipBlank(t, v[3])
        acc2 == Append(acc, v[2])
    IN  IF ~IsOk(v) THEN v
        ELSE IF n > Len(t) THEN JSONDecodeError
        ELSE IF t[n] = P(",") THEN ParseElements(t, n + 1, acc2)
        ELSE IF t[n] = P("]") THEN <<"ok", PyList(acc2), n + 1>>
        ELSE JSONDecodeError

\* json.loads
loads(t) ==
    LET v == ParseValue(t, 1)
    IN  IF ~IsOk(v) THEN v
        ELSE IF SkipBlank(t, v[3]) <= Len(t)
        THEN Raise("JSONDecodeError", <<"Extra data">>)
        ELSE Ok(v[2])

from_json_str(c, json_self) ==
    LET obj == loads(json_self)
    IN  IF IsOk(obj) THEN from_json_obj(c, Val(obj)) ELSE obj

XmattersList_from_json_str(L, json_self) ==
    LET objs == loads(json_self)
    IN  IF IsOk(objs) THEN XmattersList_from_json_obj(L, Val(objs)) ELSE objs

\* the json property of XmattersBase: base.py defines it, common.py does not
XmattersBase_json(self) ==
    IF Schemas[self[2]].module = "base"
    THEN Dumps(self, CompactSeparators, "XmattersJSONEncoder")
    ELSE Raise("AttributeError", <<"json">>)

\* the json property of XmattersList
XmattersList_json(self) == Dumps(self, DefaultSeparators, "JSONEncoder")

(***************************************************************************)
(* a == b as Python evaluates it: "true", "false", or "raise" when the     *)
(* comparison leaves with AttributeError (other.__dict__ of a value that   *)
(* has none).                                                              *)
(***************************************************************************)
Not3(x) == CASE x = "true" -> "false" [] x = "false" -> "true" [] OTHER -> x
\* a != b: XmattersBase.__ne__ and the builtin one alike
PyNe(a, b) == Not3(PyEq(a, b))

LookupDicts ==
    {"__arg_dict", "__req_args_dict", "__attr_dict", "__type_dict",
     "__json_dict"}
\* the keys of self.__dict__ that __eq__ passes over: those not in attrdict
\* (base.py), those starting with "__" (common.py)
EqSkips(self, key) ==
    IF Schemas[self[2]].module = "base"
    THEN ~HasKey(attrdict(self[3]), key)
    ELSE key \in LookupDicts

\* other.__dict__: Enum members and list subclasses own one that holds no
\* attribute of a schema
HasDict(other) == other[1] \in {"obj", "enum", "xlist"}
DictOf(other) == IF other[1] = "obj" THEN other[3] ELSE <<>>

\* the loop of __eq__ from the i-th item of self.__dict__ on
EqLoop(self, other, i) ==
    IF i > Len(self[3]) THEN "true"
    ELSE LET key == self[3][i][1]
             value == self[3][i][2]
         IN  IF EqSkips(self, key) THEN EqLoop(self, other, i + 1)
             ELSE IF ~HasDict(other) THEN "raise"
             ELSE IF ~HasKey(DictOf(other), key) THEN "false"
             ELSE LET ne == PyNe(Get(DictOf(other), key), value)
                  IN  IF ne = "false" THEN EqLoop(self, other, i + 1)
                      ELSE IF ne = "true" THEN "false"
                      ELSE ne

XmattersBase_eq(self, other) == EqLoop(self, other, 1)

Num(v) == IF v[1] = "bool" THEN (IF v[2] THEN 1 ELSE 0) ELSE v[2]

\* list == list: the lengths, then the items up to the first unequal pair
SeqEq(a, b, i) ==
    IF Len(a) # Len(b) THEN "false"
    ELSE IF i > Len(a) THEN "true"
    ELSE LET e == PyEq(a[i], b[i])
         IN  IF e = "true" THEN SeqEq(a, b, i + 1) ELSE e

\* dict == dict
DictEq(a, b, i) ==
    IF Len(a) # Len(b) THEN "false"
    ELSE IF i > Len(a) THEN "true"
    ELSE IF ~HasKey(b, a[i][1]) THEN "false"
    ELSE LET e == PyEq(a[i][2], Get(b, a[i][1]))
         IN  IF e = "true" THEN DictEq(a, b, i + 1) ELSE e

Items(v) == IF v[1] = "xlist" THEN v[3] ELSE v[2]

PyEq(a, b) ==
    IF a[1] = "obj" THEN XmattersBase_eq(a, b)
    \* the builtin left operand answers NotImplemented: reflected call
    ELSE IF b[1] = "obj" THEN XmattersBase_eq(b, a)
    ELSE IF a[1] \in {"int", "bool"} /\ b[1] \in {"int", "bool"}
    THEN (IF Num(a) = Num(b) THEN "true" ELSE "false")
    ELSE IF a[1] \in {"list", "xlist"} /\ b[1] \in {"list", "xlist"}
    THEN SeqEq(Items(a), Items(b), 1)
    ELSE IF a[1] = "dict" /\ b[1] = "dict" THEN DictEq(a[2], b[2], 1)
    ELSE IF a[1] = b[1] /\ a = b THEN "true"
    ELSE "false"

(***************************************************************************)
(* The explored inputs.  Every declared type has a few raw values as they  *)
(* come out of json.loads (JsonSamples) and a few Python values as a       *)
(* caller of the constructor passes them (PySamples): well-shaped ones,    *)
(* falsy ones, and wrong-shaped ones.                                      *)
(***************************************************************************)
RECURSIVE ValidPairs(_, _)
\* a raw mapping that class c accepts: its required wire fields, well-shaped
ValidMapping(c) == PyDict(ValidPairs(c, Len(Schemas[c]._json_names)))
FirstValid(T) ==
    CASE T = "int" -> PyInt(1)
      [] T = "bool" -> PyBool(TRUE)
      [] T = "str" -> PyStr("a")
      [] T = "list" -> PyList(<<>>)
      [] IsEnumClass(T) -> Enums[T][1][2]
      [] T \in Classes -> ValidMapping(T)
ValidPairs(c, n) ==
    IF n = 0 THEN <<>>
    ELSE LET before == ValidPairs(c, n - 1)
         IN  IF Schemas[c]._arg_names[n].star THEN before
             ELSE Append(before, <<Schemas[c]._json_names[n],
                                   FirstValid(Schemas[c]._attr_types[n])>>)

JsonSamples(T) ==
    CASE T = "int" -> <<PyInt(1), PyInt(0), PyBool(TRUE), PyStr("a")>>
      [] T = "bool" -> <<PyBool(TRUE), PyBool(FALSE), PyInt(1), None>>
      [] T = "str" -> <<PyStr("a"), PyStr(""), PyInt(1), None>>
      [] T = "list" -> <<PyList(<<>>), PyList(<<PyInt(1)>>), PyDict(<<>>), None>>
      [] IsEnumClass(T) ->
            [i \in 1..Len(Enums[T]) |-> Enums[T][i][2]] \o <<PyStr("a"), PyInt(1)>>
      [] T \in Classes -> <<ValidMapping(T), PyDict(<<>>), PyStr("a"), None>>

PySamples(T) ==
    CASE T = "int" -> {PyInt(1), PyBool(TRUE), PyStr("a")}
      [] T = "bool" -> {PyBool(TRUE), PyBool(FALSE), PyInt(1)}
      [] T = "str" -> {PyStr("a"), PyInt(1), None}
      [] T = "list" -> {PyList(<<>>), PyList(<<PyInt(1)>>), None}
      [] IsEnumClass(T) -> {Member(T, Enums[T][1][1]), Enums[T][1][2], PyStr("a")}
      [] T \in Classes ->
            {Val(XmattersBase_init(T, <<ValidMapping(T)>>, <<>>)),
             ValidMapping(T), PyStr("a")}

IndexOf(x, s) == CHOOSE i \in 1..Len(s) : s[i] = x
\* the classes whose every field one call within the bounds can supply; the
\* calls of the other classes are drawn from WideCalls
Narrow == {c \in Classes : Len(Schemas[c]._attr_names) <= MaxInputs}
Wide == {"Recipient", "DynamicTeam"}
SeqSet(s) == {s[i] : i \in 1..Len(s)}

\* the keys of a raw mapping: the declared wire names and an undeclared one
WireKeys(c) == SeqSet(Schemas[c]._json_names) \cup {"extra"}
WireSamples(c, key) ==
    IF key = "extra" THEN <<PyInt(1)>>
    ELSE JsonSamples(Schemas[c]._attr_types[IndexOf(key, Schemas[c]._json_names)])

\* the sequences of n distinct keys
KeySeqs(c, n) ==
    {ks \in [1..n -> WireKeys(c)] :
       \A i, j \in 1..n : i # j => ks[i] # ks[j]}
\* the raw mapping of the keys ks, the ix[i]-th sample under the i-th key
Mapping(c, ks, ix) ==
    PyDict([i \in 1..Len(ks) |-> <<ks[i], WireSamples(c, ks[i])[ix[i]]>>])

\* the raw mappings whose keys follow the declared order
RECURSIVE OrderedMappings(_, _)
OrderedMappings(c, n) ==
    IF n = 0 THEN {<<>>}
    ELSE LET key == Schemas[c]._json_names[n]
             before == OrderedMappings(c, n - 1)
         IN  before \cup UNION {{Append(m, <<key, v>>) : v \in SeqSet(WireSamples(c, key))} :
                                m \in before}

\* the sequences of n positional inputs; past the declared fields a string
RECURSIVE ArgSeqs(_, _)
ArgSeqs(c, n) ==
    IF n = 0 THEN {<<>>}
    ELSE LET here == IF n <= Len(Schemas[c]._attr_types)
                     THEN PySamples(Schemas[c]._attr_types[n])
                     ELSE {PyStr("a")}
         IN  UNION {{Append(a, v) : v \in here} : a \in ArgSeqs(c, n - 1)}

\* the names of named inputs: the declared ones and an undeclared one
ArgNames(c) == SeqSet(_process_arg_names(Schemas[c]._arg_names).arg_names)
KwNames(c) == ArgNames(c) \cup {"bogus"}
KwSamples(c, key) ==
    IF key = "bogus" THEN {PyStr("a")}
    ELSE PySamples(Schemas[c]._attr_types[
             IndexOf(key, _process_arg_names(Schemas[c]._arg_names).arg_names)])

\* the named inputs of n distinct names, in every order
RECURSIVE KwSeqs(_, _)
KwSeqs(c, n) ==
    IF n = 0 THEN {<<>>}
    ELSE UNION {{Append(mk[1], <<mk[2], v>>) : v \in KwSamples(c, mk[2])} :
                mk \in {x \in KwSeqs(c, n - 1) \X KwNames(c) :
                           ~HasKey(x[1], x[2])}}

\* texts that json.loads rejects
Malformed ==
    {<<>>, <<P("{")>>, <<PyStr("a"), PyStr("a")>>,
     <<P("{"), PyStr("id"), P(":"), PyStr("a"), P(","), P("}")>>,
     <<P("["), P("]"), P("]")>>}

Call(op, cls, args, kwargs, json_self) ==
    [op |-> op, cls |-> cls, args |-> args, kwargs |-> kwargs,
     json_self |-> json_self]

\* cls(*args, **kwargs)
InitCalls ==
    UNION {UNION {UNION {{Call("init", c, a, k, <<>>) :
                            a \in ArgSeqs(c, n), k \in KwSeqs(c, kn)} :
                         kn \in 0..Min(MaxKwargs, MaxInputs - n)} :
                  n \in 0..MaxInputs} :
           c \in Narrow}
    \* cls(mapping, mapping), cls(mapping, value), cls(value, mapping)
    \cup UNION {{Call("init", c, <<a, b>>, k, <<>>) :
                   a \in {ValidMapping(c), PyStr("a")},
                   b \in {ValidMapping(c), PyDict(<<>>)},
                   k \in KwSeqs(c, 0) \cup KwSeqs(c, 1)} :
                c \in Narrow}
\* the subsequences of the first n items of s
RECURSIVE SubSeqs(_, _)
SubSeqs(s, n) ==
    IF n = 0 THEN {<<>>}
    ELSE SubSeqs(s, n - 1) \cup {Append(m, s[n]) : m \in SubSeqs(s, n - 1)}
\* cls(mapping, **kwargs)
InitDictCalls ==
    UNION {UNION {{Call("init", c, <<PyDict(m)>>, k, <<>>) :
                     m \in SubSeqs(ValidMapping(c)[2], Len(ValidMapping(c)[2])),
                     k \in KwSeqs(c, kn)} :
                  kn \in 1..MaxKwargs} :
           c \in Narrow}

\* cls.from_json_obj(json_self) of a value that is no mapping
FromJsonObjCalls ==
    {Call("from_json_obj", c, <<v>>, <<>>, <<>>) :
       c \in Narrow, v \in {PyStr("a"), PyInt(1), None, PyList(<<>>)}}

\* the two spellings of a raw value as text
Texts(v) ==
    {Val(Dumps(v, CompactSeparators, "JSONEncoder")),
     Val(Dumps(v, DefaultSeparators, "JSONEncoder"))}

\* cls.from_json_str(json_self)
FromJsonStrCalls ==
    UNION {UNION {{Call("from_json_str", c, <<>>, <<>>, t) : t \in Texts(PyDict(m))} :
                  m \in OrderedMappings(c, Len(Schemas[c]._json_names))} :
           c \in Narrow}
    \cup {Call("from_json_str", c, <<>>, <<>>, t) :
            c \in Narrow,
            t \in Malformed \cup {<<PyInt(1)>>, <<None>>, <<P("["), P("]")>>}}

\* the raw elements handed to a collection
ItemSamples ==
    {ValidMapping("ErrorTest"),
     PyDict(<<<<"message", PyStr("")>>, <<"code", PyInt(0)>>,
              <<"reason", PyStr("a")>>, <<"extra", PyInt(1)>>>>),
     PyDict(<<<<"code", PyStr("a")>>>>),
     PyDict(<<>>)}
RECURSIVE Arrays(_, _)
Arrays(items, n) ==
    IF n = 0 THEN {<<>>}
    ELSE Arrays(items, n - 1)
         \cup UNION {{Append(a, v) : v \in items} :
                     a \in {x \in Arrays(items, n - 1) : Len(x) = n - 1}}

\* cls.from_json_obj(json_self) of a collection class
ListFromJsonObjCalls ==
    {Call("list_from_json_obj", L, <<PyList(a)>>, <<>>, <<>>) :
       L \in ListClasses, a \in Arrays(ItemSamples, MaxItems)}
    \cup {Call("list_from_json_obj", L, <<v>>, <<>>, <<>>) :
            L \in ListClasses, v \in {PyInt(1), None, PyDict(<<>>)}}

\* cls.from_json_str(json_self) of a collection class
ListFromJsonStrCalls ==
    UNION {{Call("list_from_json_str", L, <<>>, <<>>, t) : t \in Texts(PyList(a))} :
           <<L, a>> \in ListClasses \X Arrays(ItemSamples, MaxItems)}
    \cup {Call("list_from_json_str", L, <<>>, <<>>, t) :
            L \in ListClasses, t \in Malformed \cup {<<PyInt(1)>>}}

\* cls(), cls(iterable) of a collection class
InstanceSamples ==
    {Val(XmattersBase_init("ErrorTest", <<m>>, <<>>)) :
       m \in {x \in ItemSamples : IsOk(XmattersBase_init("ErrorTest", <<x>>, <<>>))}}
ListInitCalls ==
    {Call("list_init", L, <<>>, <<>>, <<>>) : L \in ListClasses}
    \cup {Call("list_init", L, <<PyList(a)>>, <<>>, <<>>) :
            L \in ListClasses, a \in Arrays(InstanceSamples, MaxItems)}
    \cup {Call("list_init", L, <<v>>, <<>>, <<>>) :
            L \in ListClasses, v \in {PyInt(1)}}

\* the raw elements handed to a RecipientList: a DynamicTeam mapping under
\* every kind of recipientType, without it, without its id, and a string
WithType(v) == PyDict(Put(ValidMapping("DynamicTeam")[2], "recipientType", v))
RecipientItems ==
    {WithType(PyStr(t)) : t \in {"DYNAMIC_TEAM", "GROUP", "PERSON", "DEVICE", "a", ""}}
    \cup {WithType(None),
          PyDict(SelectSeq(ValidMapping("DynamicTeam")[2],
                           LAMBDA kv : kv[1] # "recipientType")),
          PyDict(SelectSeq(WithType(PyStr("DYNAMIC_TEAM"))[2],
                           LAMBDA kv : kv[1] # "id")),
          PyStr("a")}
\* RecipientList.from_json_obj(json_self), RecipientList.from_json_str(json_self)
RecipientListCalls ==
    {Call("list_from_json_obj", "RecipientList", <<PyList(a)>>, <<>>, <<>>) :
       a \in Arrays(RecipientItems, MaxItems)}
    \cup UNION {{Call("list_from_json_str", "RecipientList", <<>>, <<>>, t) :
                   t \in Texts(PyList(a))} : a \in Arrays(RecipientItems, MaxItems)}

\* a value of type T as a caller of the constructor passes it
FirstPy(T) ==
    CASE T = "int" -> PyInt(1)
      [] T = "bool" -> PyBool(TRUE)
      [] T = "str" -> PyStr("a")
      [] T = "list" -> PyList(<<>>)
      [] IsEnumClass(T) -> Member(T, Enums[T][1][1])
      [] T \in Classes -> Val(Instantiate(T, <<ValidMapping(T)>>, <<>>))
\* well-shaped positional inputs for every declared field of c
ValidArgs(c) ==
    [i \in 1..Len(Schemas[c]._attr_types) |-> FirstPy(Schemas[c]._attr_types[i])]
\* the well-shaped raw pairs of the optional wire fields among the first n
RECURSIVE OptionalPairs(_, _)
OptionalPairs(c, n) ==
    IF n = 0 THEN <<>>
    ELSE IF Schemas[c]._arg_names[n].star
    THEN Append(OptionalPairs(c, n - 1),
                <<Schemas[c]._json_names[n], FirstValid(Schemas[c]._attr_types[n])>>)
    ELSE OptionalPairs(c, n - 1)
\* raw mappings of a wide class: any of its required fields and any of its
\* optional ones, well-shaped and in declared order
WideMappings(c) ==
    {PyDict(r \o o) :
       r \in SubSeqs(ValidMapping(c)[2], Len(ValidMapping(c)[2])),
       o \in SubSeqs(OptionalPairs(c, Len(Schemas[c]._json_names)),
                     Len(OptionalPairs(c, Len(Schemas[c]._json_names))))}
\* the calls of the wide classes: a raw mapping as object or as text, and
\* the leading well-shaped positional inputs with at most one named input
WideCalls ==
    UNION {{Call("from_json_obj", c, <<m>>, <<>>, <<>>) : m \in WideMappings(c)} :
           c \in Wide}
    \cup UNION {UNION {{Call("from_json_str", c, <<>>, <<>>, t) :
                          t \in Texts(PyDict(ValidMapping(c)[2] \o o))} :
                       o \in SubSeqs(OptionalPairs(c, Len(Schemas[c]._json_names)),
                                     Len(OptionalPairs(c, Len(Schemas[c]._json_names))))} :
                c \in Wide}
    \cup UNION {{Call("init", c, SubSeq(ValidArgs(c), 1, n), k, <<>>) :
                   n \in 0..Len(ValidArgs(c)),
                   k \in KwSeqs(c, 0) \cup KwSeqs(c, 1)} :
                c \in Wide}

\* EmailDevice(timeframes=...), EmailDevice(id="a", timeframes=...): a
\* collection of timeframes, built beforehand or raw, as named input
DeviceCalls ==
    LET raw == <<<<"name", PyStr("a")>>, <<"startTime", PyStr("a")>>,
                 <<"durationInMinutes", PyInt(1)>>, <<"days", PyList(<<>>)>>,
                 <<"excludeHolidays", PyBool(TRUE)>>, <<"timezone", PyStr("a")>>>>
    IN  {Call("init", "EmailDevice", <<>>, k \o <<<<"timeframes", t>>>>, <<>>) :
           k \in {<<>>, <<<<"id", PyStr("a")>>>>},
           t \in {<<"xlist", "DeviceTimeframeList", a>> :
                    a \in Arrays({Val(Instantiate("DeviceTimeframe",
                                                   <<PyDict(raw)>>, <<>>))},
                                 MaxItems)}
                 \cup {PyList(<<PyDict(raw)>>)}}

\* the raw pairs m hold every required wire field of class c
Complete(c, m) ==
    \A i \in 1..Len(Schemas[c]._json_names) :
       Schemas[c]._arg_names[i].star \/ HasKey(m, Schemas[c]._json_names[i])
\* the number of leading required arguments of class c
Leading(c) == Cardinality({i \in 1..Len(Schemas[c]._arg_names) :
                             ~Schemas[c]._arg_names[i].star})
\* the instances a client compares: those the classes return for the raw
\* mappings in declared order and for positional inputs that leave no
\* required field out
Returns ==
    UNION {{from_json_obj(c, PyDict(m)) :
              m \in {x \in OrderedMappings(c, Len(Schemas[c]._json_names)) :
                        Complete(c, x)}} : c \in Narrow}
    \cup UNION {UNION {{Instantiate(c, a, <<>>) : a \in ArgSeqs(c, n)} :
                       n \in Leading(c)..Len(Schemas[c]._attr_names)} : c \in Narrow}
    \cup UNION {{from_json_obj(c, m) : m \in {x \in WideMappings(c) : Complete(c, x[2])}} :
                c \in Wide}
    \cup UNION {{Instantiate(c, SubSeq(ValidArgs(c), 1, n), <<>>) :
                   n \in Leading(c)..Len(ValidArgs(c))} : c \in Wide}
Operands == {Val(r) : r \in {x \in Returns : IsOk(x)}}
\* a == b, a != b
CompareCalls ==
    {Call(op, p[1][2], p, <<>>, <<>>) :
       op \in {"eq", "ne"}, p \in Operands \X Operands}

\* cls.from_json_obj(json_self) of a raw mapping: at most MaxKeys distinct
\* keys in any order, any sample under each
IsMappingCall ==
    \E c \in Narrow, n \in 0..MaxKeys :
      \E ks \in KeySeqs(c, n), ix \in [1..n -> 1..MaxSamples] :
        /\ \A i \in 1..n : ix[i] <= Len(WireSamples(c, ks[i]))
        /\ call = Call("from_json_obj", c, <<Mapping(c, ks, ix)>>, <<>>, <<>>)

(***************************************************************************)
(* The state machine: one call of a client, its result, the text of the    *)
(* result, and the instance decoded back from that text.                   *)
(***************************************************************************)
Nothing == <<"none">>

Init ==
    /\ pc = "call"
    /\ \/ IsMappingCall
       \/ call \in InitCalls
       \/ call \in InitDictCalls
       \/ call \in FromJsonObjCalls
       \/ call \in FromJsonStrCalls
       \/ call \in ListInitCalls
       \/ call \in ListFromJsonObjCalls
       \/ call \in ListFromJsonStrCalls
       \/ call \in WideCalls
       \/ call \in RecipientListCalls
       \/ call \in DeviceCalls
       \/ call \in CompareCalls
    /\ ret = Nothing
    /\ text = Nothing
    /\ back = Nothing

\* cls(*args, **kwargs)
Construct ==
    /\ pc = "call" /\ call.op = "init"
    /\ ret' = Instantiate(call.cls, call.args, call.kwargs)
    /\ pc' = "returned"
    /\ UNCHANGED <<call, text, back>>

FromJsonObj ==
    /\ pc = "call" /\ call.op = "from_json_obj"
    /\ ret' = from_json_obj(call.cls, call.args[1])
    /\ pc' = "returned"
    /\ UNCHANGED <<call, text, back>>

FromJsonStr ==
    /\ pc = "call" /\ call.op = "from_json_str"
    /\ ret' = from_json_str(call.cls, call.json_self)
    /\ pc' = "returned"
    /\ UNCHANGED <<call, text, back>>

ListConstruct ==
    /\ pc = "call" /\ call.op = "list_init"
    /\ ret' = XmattersList_init(call.cls, call.args)
    /\ pc' = "returned"
    /\ UNCHANGED <<call, text, back>>

ListFromJsonObj ==
    /\ pc = "call" /\ call.op = "list_from_json_obj"
    /\ ret' = XmattersList_from_json_obj(call.cls, call.args[1])
    /\ pc' = "returned"
    /\ UNCHANGED <<call, text, back>>

ListFromJsonStr ==
    /\ pc = "call" /\ call.op = "list_from_json_str"
    /\ ret' = XmattersList_from_json_str(call.cls, call.json_self)
    /\ pc' = "returned"
    /\ UNCHANGED <<call, text, back>>

\* what a comparison leaves its caller with: the boolean, or the
\* AttributeError of other.__dict__
Compared(x) ==
    IF x = "raise" THEN Raise("AttributeError", <<"__dict__">>)
    ELSE Ok(PyBool(x = "true"))

\* a == b
Equals ==
    /\ pc = "call" /\ call.op = "eq"
    /\ ret' = Compared(PyEq(call.args[1], call.args[2]))
    /\ pc' = "returned"
    /\ UNCHANGED <<call, text, back>>

\* a != b
NotEquals ==
    /\ pc = "call" /\ call.op = "ne"
    /\ ret' = Compared(PyNe(call.args[1], call.args[2]))
    /\ pc' = "returned"
    /\ UNCHANGED <<call, text, back>>

\* ret.json of an instance
Json ==
    /\ pc = "returned" /\ IsOk(ret) /\ Val(ret)[1] = "obj"
    /\ text' = XmattersBase_json(Val(ret))
    /\ pc' = "encoded"
    /\ UNCHANGED <<call, ret, back>>

\* ret.json of a collection
ListJson ==
    /\ pc = "returned" /\ IsOk(ret) /\ Val(ret)[1] = "xlist"
    /\ text' = XmattersList_json(Val(ret))
    /\ pc' = "encoded"
    /\ UNCHANGED <<call, ret, back>>

\* type(ret).from_json_str(ret.json)
Reload ==
    /\ pc = "encoded" /\ IsOk(text) /\ Val(ret)[1] = "obj"
    /\ back' = from_json_str(TypeOf(Val(ret)), Val(text))
    /\ pc' = "reloaded"
    /\ UNCHANGED <<call, ret, text>>

ListReload ==
    /\ pc = "encoded" /\ IsOk(text) /\ Val(ret)[1] = "xlist"
    /\ back' = XmattersList_from_json_str(TypeOf(Val(ret)), Val(text))
    /\ pc' = "reloaded"
    /\ UNCHANGED <<call, ret, text>>

Next ==
    \/ Construct
    \/ FromJsonObj
    \/ FromJsonStr
    \/ ListConstruct
    \/ ListFromJsonObj
    \/ ListFromJsonStr
    \/ Equals
    \/ NotEquals
    \/ Json
    \/ ListJson
    \/ Reload
    \/ ListReload

Spec == Init /\ [][Next]_vars

(***************************************************************************)
(* Properties.  The call whose result the state holds, seen as the         *)
(* constructor sees it.                                                    *)
(***************************************************************************)
Returned == pc = "returned"
\* the call reaches XmattersBase.__init__ of call.cls
Constructs ==
    \/ call.op \in {"init", "from_json_obj"}
    \/ call.op = "from_json_str" /\ IsOk(loads(call.json_self))
\* the positional inputs __init__ receives
Args ==
    IF call.op = "from_json_str" THEN <<Val(loads(call.json_self))>>
    ELSE call.args
DictMode == Constructs /\ Len(Args) = 1 /\ Args[1][1] = "dict"
PositionalMode == Constructs /\ Len(Args) > 0 /\ ~DictMode
Least(S) == CHOOSE i \in S : \A j \in S : i <= j

\* C1: every instance x a construction returns can be encoded, the text
\* decodes again, and the decoded instance equals x under __eq__
C1_RoundTrip ==
    /\ pc = "encoded" /\ Val(ret)[1] = "obj" => IsOk(text)
    /\ pc = "reloaded" /\ Val(ret)[1] = "obj" =>
          IsOk(back) /\ PyEq(Val(back), Val(ret)) = "true"

\* ErrorTest(True, "a", "a") was built and encoded, and its text is refused
C1_BoolInIntField ==
    /\ pc = "reloaded"
    /\ call = Call("init", "ErrorTest",
                   <<PyBool(TRUE), PyStr("a"), PyStr("a")>>, <<>>, <<>>)
    /\ Val(text) = <<P("{"), PyStr("code"), P(":"), PyBool(TRUE), P(","),
                     PyStr("reason"), P(":"), PyStr("a"), P(","),
                     PyStr("message"), P(":"), PyStr("a"), P("}")>>
    /\ back = Raise("TypeError", <<"JSON Attribute", "ErrorTest", "code">>)

\* the i-th declared field receives a value from the inputs of the call
SuppliedAt(i) ==
    LET cls == Schemas[call.cls]
    IN  \/ DictMode /\ HasKey(Args[1][2], cls._json_names[i])
        \/ PositionalMode /\ i <= Len(Args)
        \/ HasKey(call.kwargs, cls._arg_names[i].name)
\* the attributes of the required arguments among the first n that receive
\* no value
RECURSIVE Unsupplied(_)
Unsupplied(n) ==
    IF n = 0 THEN <<>>
    ELSE IF ~Schemas[call.cls]._arg_names[n].star /\ ~SuppliedAt(n)
    THEN Append(Unsupplied(n - 1), Schemas[call.cls]._attr_names[n])
    ELSE Unsupplied(n - 1)
IsMissing(r, c) ==
    /\ r[1] = "exc" /\ r[2] = "TypeError"
    /\ r[3][1] = "Missing arguments" /\ r[3][2] = c

RECURSIVE Validated(_)
Validated(v) ==
    CASE v[1] = "obj" ->
            \A i \in 1..Len(Schemas[v[2]]._attr_names) :
               LET x == Get(v[3], Schemas[v[2]]._attr_names[i])
               IN  IF x = None THEN Schemas[v[2]]._arg_names[i].star
                   ELSE IsInstance(x, Schemas[v[2]]._attr_types[i]) /\ Validated(x)
      [] v[1] = "xlist" ->
            /\ Lists[v[2]].base_class[1] = "type"
            /\ \A i \in 1..Len(v[3]) :
                  /\ IsInstance(v[3][i], Lists[v[2]].base_class[2])
                  /\ Validated(v[3][i])
      [] OTHER -> TRUE

\* the raw value the collection decoder is handed
ListArg ==
    IF call.op = "list_from_json_str" THEN Val(loads(call.json_self))
    ELSE call.args[1]
DecodesList ==
    \/ call.op = "list_from_json_obj"
    \/ call.op = "list_from_json_str" /\ IsOk(loads(call.json_self))
\* a mapping under a declared key of dictionary mode that the nested schema
\* refuses, or an element of the raw array that the element schema refuses
NestedStepFails ==
    \/ /\ DictMode
       /\ \E i \in 1..Len(Args[1][2]) :
             LET key == Args[1][2][i][1]
                 cls == Schemas[call.cls]
             IN  /\ InSeq(key, cls._json_names)
                 /\ Args[1][2][i][2][1] = "dict"
                 /\ cls._attr_types[IndexOf(key, cls._json_names)] \in Classes
                 /\ ~IsOk(XmattersBase_init(
                        cls._attr_types[IndexOf(key, cls._json_names)],
                        <<Args[1][2][i][2]>>, <<>>))
    \/ /\ DecodesList /\ ListArg[1] = "list"
       /\ Lists[call.cls].base_class[1] = "type"
       /\ Lists[call.cls].base_class[2] \in Classes
       /\ \E i \in 1..Len(ListArg[2]) :
             ~IsOk(XmattersBase_init(Lists[call.cls].base_class[2],
                                     <<ListArg[2][i]>>, <<>>))

IsProper(T, value) ==
    \/ T \in Classes /\ value[1] = "dict"
    \/ IsEnumClass(T) /\ value[1] = "str"
    \/ IsListClass(T) /\ value[1] = "list"
    \/ TypeOf(value) = T
IsMismatch(r, c, key) == r = Raise("TypeError", <<"JSON Attribute", c, key>>)
\* the positions of the raw mapping whose key is declared and whose value
\* the rule refuses
Improper ==
    {i \in 1..Len(Args[1][2]) :
       LET key == Args[1][2][i][1]
           cls == Schemas[call.cls]
       IN  /\ InSeq(key, cls._json_names)
           /\ ~IsProper(cls._attr_types[IndexOf(key, cls._json_names)],
                        Args[1][2][i][2])}

\* C4: in dictionary mode no value the rule accepts is refused as a type
\* mismatch, a value the rule refuses makes the construction fail, and the
\* mismatch reported names the wire field of the first refused value
C4_DictionaryTypeRule ==
    Returned /\ DictMode /\ call.kwargs = <<>> =>
       /\ \A i \in 1..Len(Args[1][2]) :
             i \notin Improper => ~IsMismatch(ret, call.cls, Args[1][2][i][1])
       /\ Improper # {} =>
             /\ ~IsOk(ret)
             /\ \A i \in 1..Len(Args[1][2]) :
                   IsMismatch(ret, call.cls, Args[1][2][i][1]) => i = Least(Improper)

\* PersonReference refuses the mapping under links, the wire field of its
\* nested schema SelfLink
C4_NestedMappingRefused ==
    /\ Returned /\ call.op = "from_json_obj" /\ call.cls = "PersonReference"
    /\ Args[1] = PyDict(<<<<"id", PyStr("a")>>, <<"targetName", PyStr("a")>>,
                          <<"links", PyDict(<<<<"self", PyStr("a")>>>>)>>>>)
    /\ ret = Raise("TypeError", <<"JSON Attribute", "PersonReference", "links">>)

\* the raw mapping without the keys that are no declared wire names
Restricted(c, m) ==
    PyDict(SelectSeq(m[2], LAMBDA kv : InSeq(kv[1], Schemas[c]._json_names)))

\* C5: decoding a raw mapping succeeds iff decoding it without its
\* undeclared keys succeeds, and then both give equal instances
C5_UndeclaredIgnored ==
    Returned /\ DictMode /\ call.kwargs = <<>> =>
       LET r == from_json_obj(call.cls, Restricted(call.cls, Args[1]))
       IN  /\ IsOk(ret) <=> IsOk(r)
           /\ IsOk(ret) => /\ PyEq(Val(ret), Val(r)) = "true"
                           /\ PyEq(Val(r), Val(ret)) = "true"
           /\ ~IsOk(ret) => ret = r

\* a mapping with an undeclared key between the declared ones is decoded
C5_ExtraKeyDecoded ==
    /\ Returned /\ call.op = "from_json_obj" /\ call.cls = "Conference"
    /\ Keys(Args[1][2]) = <<"type", "extra", "bridgeId">>
    /\ IsOk(ret)

\* the one-based positions of positional inputs that are no instance of the
\* type declared at their position
WrongShaped ==
    {i \in 1..Min(Len(Args), Len(Schemas[call.cls]._attr_types)) :
       ~IsInstance(Args[i], Schemas[call.cls]._attr_types[i])}

\* C6: in positional mode the first wrong-shaped value makes the
\* construction fail with the mismatch that carries its zero-based index
C6_PositionalIndex ==
    Returned /\ PositionalMode /\ WrongShaped # {} =>
       ret = Raise("TypeError", <<"position", call.cls, Least(WrongShaped) - 1>>)

\* a wrong-shaped third value after two well-shaped ones
C6_ThirdPosition ==
    /\ Returned /\ PositionalMode /\ call.cls = "PersonReference"
    /\ Len(Args) = 3 /\ WrongShaped = {3}
    /\ ret = Raise("TypeError", <<"position", "PersonReference", 2>>)

\* the positions of the raw mapping that hold a string under the wire name
\* of an enumeration-typed field
EnumStrings ==
    {i \in 1..Len(Args[1][2]) :
       LET key == Args[1][2][i][1]
           cls == Schemas[call.cls]
       IN  /\ InSeq(key, cls._json_names)
           /\ IsEnumClass(cls._attr_types[IndexOf(key, cls._json_names)])
           /\ Args[1][2][i][2][1] = "str"}
\* the members of E whose underlying value is the raw value
MembersOf(E, value) ==
    {Member(E, Enums[E][k][1]) : k \in {j \in 1..Len(Enums[E]) : Enums[E][j][2] = value}}
\* the raw mapping with the value at position i replaced
Replaced(m, i, value) ==
    PyDict([m[2] EXCEPT ![i] = <<m[2][i][1], value>>])

\* C7: a string under an enumeration-typed field is decoded to the member
\* that has it as underlying value; a string that no member has makes the
\* decoding fail, with the unknown-value failure of the enumeration wherever
\* the same mapping with a declared value decodes; and with a declared value
\* the mapping decodes iff it does with any other declared value
C7_EnumDecode ==
    Returned /\ DictMode /\ call.kwargs = <<>> =>
       \A i \in EnumStrings :
          LET key == Args[1][2][i][1]
              cls == Schemas[call.cls]
              n == IndexOf(key, cls._json_names)
              E == cls._attr_types[n]
              members == MembersOf(E, Args[1][2][i][2])
              good == from_json_obj(call.cls, Replaced(Args[1], i, Enums[E][1][2]))
              unknown == Raise("ValueError", <<"is not a valid", E>>)
          IN  /\ members = {} =>
                    /\ ~IsOk(ret)
                    /\ IsOk(good) \/ i = 1 => ret = unknown
              /\ members # {} =>
                    /\ ret # unknown
                    /\ IsOk(ret) <=> IsOk(good)
                    /\ IsOk(ret) => Get(Val(ret)[3], cls._attr_names[n]) \in members

\* a Conference whose type is no value of ConferenceHostType
C7_UnknownValue ==
    /\ Returned /\ call.op = "from_json_obj" /\ call.cls = "Conference"
    /\ Args[1] = PyDict(<<<<"bridgeId", PyStr("a")>>, <<"type", PyStr("a")>>>>)
    /\ ret = Raise("ValueError", <<"is not a valid", "ConferenceHostType">>)

\* the collection class is bound to an entity class
Bound(L) ==
    Lists[L].base_class[1] = "type" /\ Lists[L].base_class[2] \in Classes

\* C8: a bound collection that decodes by XmattersList.from_json_obj decodes
\* a raw array iff its element class accepts every item, and the result is a
\* collection of its own class with as many elements, the i-th an instance
\* of the element class equal to the one constructed from the i-th item
C8_ListDecode ==
    Returned /\ DecodesList /\ ListArg[1] = "list" /\ Bound(call.cls)
             /\ call.cls \notin Overriding =>
       LET base_class == Lists[call.cls].base_class[2]
           direct == [i \in 1..Len(ListArg[2]) |->
                        XmattersBase_init(base_class, <<ListArg[2][i]>>, <<>>)]
       IN  /\ IsOk(ret) <=> \A i \in 1..Len(direct) : IsOk(direct[i])
           /\ IsOk(ret) =>
                 /\ Val(ret)[1] = "xlist" /\ Val(ret)[2] = call.cls
                 /\ Len(Val(ret)[3]) = Len(direct)
                 /\ \A i \in 1..Len(direct) :
                       /\ Val(ret)[3][i][1] = "obj"
                       /\ Val(ret)[3][i][2] = base_class
                       /\ PyEq(Val(ret)[3][i], Val(direct[i])) = "true"

\* two different items decoded, in their order
C8_TwoElements ==
    /\ Returned /\ call.op = "list_from_json_obj" /\ call.cls = "TestList"
    /\ ListArg[1] = "list" /\ Len(ListArg[2]) = 2
    /\ Keys(ListArg[2][1][2]) = <<"message", "code", "reason", "extra">>
    /\ ListArg[2][2] = ValidMapping("ErrorTest")
    /\ IsOk(ret)
    /\ Get(Val(ret)[3][1][3], "code") = PyInt(0)
    /\ Get(Val(ret)[3][2][3], "code") = PyInt(1)

\* C9: a collection class whose base_class is missing or is no entity class
\* returns no collection, whatever it is created or decoded from
C9_InvalidElementSchema ==
    /\ Returned
    /\ call.op \in {"list_init", "list_from_json_obj", "list_from_json_str"}
    /\ ~Bound(call.cls)
    => ~IsOk(ret)

\* the empty array handed to a collection class without base_class
C9_EmptyArrayRefused ==
    /\ Returned /\ call.op = "list_from_json_obj" /\ call.cls = "BadTestList1"
    /\ call.args = <<PyList(<<>>)>>
    /\ ret = Raise("TypeError", <<"issubclass() arg 1 must be a class">>)

\* the raw mapping as its encoded form shows it: the declared wire fields it
\* holds, in declared order, nested mappings likewise
RECURSIVE Canonical(_, _)
RECURSIVE CanonicalPairs(_, _, _)
Canonical(c, m) == PyDict(CanonicalPairs(c, m, Len(Schemas[c]._json_names)))
CanonicalPairs(c, m, n) ==
    IF n = 0 THEN <<>>
    ELSE LET key == Schemas[c]._json_names[n]
             T == Schemas[c]._attr_types[n]
             before == CanonicalPairs(c, m, n - 1)
         IN  IF ~HasKey(m[2], key) THEN before
             ELSE IF T \in Classes /\ Get(m[2], key)[1] = "dict"
             THEN Append(before, <<key, Canonical(T, Get(m[2], key))>>)
             ELSE Append(before, <<key, Get(m[2], key)>>)
CanonicalText(c, m) ==
    Val(Dumps(Canonical(c, m), CompactSeparators, "JSONEncoder"))

\* C10: the text of a decoded instance is the compact text of the declared
\* wire fields the input held, in declared order; a text that is already of
\* that form is encoded back unchanged
C10_CanonicalText ==
    pc = "encoded" /\ DictMode /\ call.kwargs = <<>> /\ Val(ret)[1] = "obj" =>
       /\ text = Ok(CanonicalText(call.cls, Args[1]))
       /\ call.op = "from_json_str"
          /\ call.json_self = CanonicalText(call.cls, Args[1])
          => text = Ok(call.json_self)

\* the canonical text of an Error is decoded, and the instance has no text
C10_ErrorHasNoText ==
    /\ pc = "encoded" /\ call.op = "from_json_str" /\ call.cls = "Error"
    /\ call.json_self = <<P("{"), PyStr("code"), P(":"), PyInt(1), P(","),
                          PyStr("reason"), P(":"), PyStr("a"), P(","),
                          PyStr("message"), P(":"), PyStr("a"), P("}")>>
    /\ IsOk(ret)
    /\ text = Raise("AttributeError", <<"json">>)

\* the wire names of the attributes of an instance that are not absent, in
\* declared order
Emitted(self) ==
    SelectSeq(Schemas[self[2]]._json_names,
              LAMBDA k : Get(self[3],
                             Schemas[self[2]]._attr_names[
                                IndexOf(k, Schemas[self[2]]._json_names)]) # None)

\* C11: an optional attribute that no input supplied is absent after the
\* construction, and the text of an instance is a mapping that holds exactly
\* the wire names of the attributes that are not absent, falsy ones included
C11_AbsentOmitted ==
    /\ Returned /\ Constructs /\ IsOk(ret) =>
          \A i \in 1..Len(Schemas[call.cls]._attr_names) :
             Schemas[call.cls]._arg_names[i].star /\ ~SuppliedAt(i) =>
                Get(Val(ret)[3], Schemas[call.cls]._attr_names[i]) = None
    /\ pc = "encoded" /\ Val(ret)[1] = "obj" =>
          /\ IsOk(text)
          /\ IsOk(loads(Val(text)))
          /\ Val(loads(Val(text)))[1] = "dict"
          /\ Keys(Val(loads(Val(text)))[2]) = Emitted(Val(ret))

\* a DynamicTeam built from its five required values alone shows a status
\* in its text
C11_StatusEmitted ==
    /\ pc = "encoded" /\ call.op = "init" /\ call.cls = "DynamicTeam"
    /\ Len(call.args) = 5 /\ call.kwargs = <<>>
    /\ IsOk(text)
    /\ HasKey(Val(loads(Val(text)))[2], "status")
    /\ ~HasKey(Val(loads(Val(text)))[2], "links")

\* every attribute declared on the schema of a has a value in b, and the two
\* values compare equal
AttrsEqual(a, b) ==
    \A i \in 1..Len(Schemas[a[2]]._attr_names) :
       /\ HasKey(b[3], Schemas[a[2]]._attr_names[i])
       /\ PyEq(Get(b[3], Schemas[a[2]]._attr_names[i]),
               Get(a[3], Schemas[a[2]]._attr_names[i])) = "true"

\* C12: a == b of two instances is True when every attribute declared on the
\* schema of a compares equal between them and False otherwise, an attribute
\* that b does not have included; the lookup tables play no part
C12_Equality ==
    Returned /\ call.op = "eq" =>
       ret = Ok(PyBool(AttrsEqual(call.args[1], call.args[2])))

\* a Recipient with links compared with one without: no boolean is returned
C12_AbsentLinksRaise ==
    /\ Returned /\ call.op = "eq"
    /\ call.args[1][2] = "Recipient" /\ call.args[2][2] = "Recipient"
    /\ Get(call.args[1][3], "links")[1] = "obj"
    /\ Get(call.args[2][3], "links") = None
    /\ Get(call.args[1][3], "status") = Get(call.args[2][3], "status")
    /\ ret = Raise("AttributeError", <<"__dict__">>)

\* C13: for two instances of one schema a == b returns a boolean, the same
\* one as b == a, and True for b = a; a != b returns the negation of it
C13_ReflexiveSymmetric ==
    Returned /\ call.op \in {"eq", "ne"} /\ call.args[1][2] = call.args[2][2] =>
       /\ IsOk(ret)
       /\ call.op = "eq" =>
             /\ ret = Compared(PyEq(call.args[2], call.args[1]))
             /\ call.args[1] = call.args[2] => ret = Ok(PyBool(TRUE))
       /\ call.op = "ne" =>
             ret = Ok(PyBool(PyEq(call.args[1], call.args[2]) = "false"))

\* a != b of a Recipient with links and one without returns no boolean
C13_NoNegation ==
    /\ Returned /\ call.op = "ne"
    /\ call.args[1][2] = "Recipient" /\ call.args[2][2] = "Recipient"
    /\ Get(call.args[1][3], "links") = None
    /\ Get(call.args[2][3], "links")[1] = "obj"
    /\ ret = Raise("AttributeError", <<"__dict__">>)


\* v is a value of the declared type T as a caller holds it
ValidFor(T, v) ==
    CASE T \in {"int", "bool", "str", "list"} -> v[1] = T
      [] IsEnumClass(T) -> v[1] = "enum" /\ v[2] = T
      [] T \in Classes -> v[1] = "obj" /\ v[2] = T
\* the wire value of a value: the value of an enum member, the raw mapping
\* of an instance, the value itself otherwise
RECURSIVE WireValue(_)
WireValue(v) ==
    CASE v[1] = "enum" -> Get(Enums[v[2]], v[3])
      [] v[1] = "obj" ->
            PyDict([i \in 1..Len(Emitted(v)) |->
                      <<Emitted(v)[i],
                        WireValue(Get(v[3], Schemas[v[2]]._attr_names[
                            IndexOf(Emitted(v)[i], Schemas[v[2]]._json_names)]))>>])
      [] OTHER -> v
\* the positional inputs args of class c as named inputs
AsNamed(c, args) ==
    [i \in 1..Len(args) |->
       <<_process_arg_names(Schemas[c]._arg_names).arg_names[i], args[i]>>]
\* the positional inputs args of class c as the raw mapping of their wire
\* values
AsMapping(c, args) ==
    PyDict([i \in 1..Len(args) |-> <<Schemas[c]._json_names[i], WireValue(args[i])>>])
\* the call passes values valid for its class by position alone, one for
\* every required field at least
ValidPositional ==
    /\ call.op = "init" /\ call.kwargs = <<>>
    /\ Len(call.args) <= Len(Schemas[call.cls]._attr_types)
    /\ \A i \in 1..Len(Schemas[call.cls]._attr_types) :
          IF i <= Len(call.args)
          THEN ValidFor(Schemas[call.cls]._attr_types[i], call.args[i])
          ELSE Schemas[call.cls]._arg_names[i].star
\* r is an instance that equals x
Agrees(x, r) == IsOk(r) /\ PyEq(x, Val(r)) = "true" /\ PyEq(Val(r), x) = "true"

\* C14: values valid for a schema give an instance when passed by position,
\* and the same values passed by name, as the raw mapping of their wire
\* values, and as the text of that mapping give instances equal to it
C14_ConventionsAgree ==
    Returned /\ ValidPositional =>
       /\ IsOk(ret)
       /\ Agrees(Val(ret), Instantiate(call.cls, <<>>, AsNamed(call.cls, call.args)))
       /\ Agrees(Val(ret), from_json_obj(call.cls, AsMapping(call.cls, call.args)))
       /\ \A t \in Texts(AsMapping(call.cls, call.args)) :
             Agrees(Val(ret), from_json_str(call.cls, t))

\* Recipient takes a SelfLink by position and by name, and refuses the raw
\* mapping of the same values
C14_MappingDisagrees ==
    /\ Returned /\ ValidPositional /\ call.cls = "Recipient"
    /\ Len(call.args) = 8
    /\ IsOk(ret)
    /\ Agrees(Val(ret), Instantiate(call.cls, <<>>, AsNamed(call.cls, call.args)))
    /\ from_json_obj(call.cls, AsMapping(call.cls, call.args))
          = Raise("TypeError", <<"JSON Attribute", "Recipient", "links">>)


\* the declared constructor arguments of the class of the call
Declared == _process_arg_names(Schemas[call.cls]._arg_names).arg_names
\* the positions of the named inputs whose name is declared and whose value
\* is no instance of the declared type
Incompatible ==
    {i \in 1..Len(call.kwargs) :
       /\ InSeq(call.kwargs[i][1], Declared)
       /\ ~IsInstance(call.kwargs[i][2],
                      Schemas[call.cls]._attr_types[IndexOf(call.kwargs[i][1], Declared)])}
IsKeywordMismatch(r, c, name) == r = Raise("TypeError", <<"Keyword argument", c, name>>)

\* C15: a construction with named inputs fails when one of the names is no
\* declared argument; it fails when a declared name carries a value of an
\* incompatible type, and the mismatch it reports names the first such
\* argument (with named inputs alone that mismatch is the failure)
C15_KeywordsVerified ==
    Returned /\ call.op = "init" /\ call.kwargs # <<>> =>
       /\ (\E i \in 1..Len(call.kwargs) : ~InSeq(call.kwargs[i][1], Declared)) =>
             ~IsOk(ret)
       /\ Incompatible # {} =>
             /\ ~IsOk(ret)
             /\ \A i \in 1..Len(call.kwargs) :
                   IsKeywordMismatch(ret, call.cls, call.kwargs[i][1]) =>
                      i = Least(Incompatible)
             /\ call.args = <<>> =>
                   IsKeywordMismatch(ret, call.cls, call.kwargs[Least(Incompatible)][1])

\* Error(1, "a", "a", bogus="a") is built
C15_UnknownNameIgnored ==
    /\ Returned /\ call.op = "init" /\ call.cls = "Error"
    /\ call.args = <<PyInt(1), PyStr("a"), PyStr("a")>>
    /\ call.kwargs = <<<<"bogus", PyStr("a")>>>>
    /\ ret = Instantiate("Error", call.args, <<>>)
    /\ IsOk(ret)


\* C16: a construction whose one positional input is a raw mapping and that
\* has named inputs as well either fails or returns the instance that the
\* mapping alone gives
C16_NoKeywordsInDictMode ==
    Returned /\ call.op = "init" /\ DictMode /\ call.kwargs # <<>> /\ IsOk(ret) =>
       ret = Instantiate(call.cls, call.args, <<>>)

\* RecipientPointer({"id": "a"}, recipient_type="a") holds the named input
C16_KeywordApplied ==
    /\ Returned /\ call.op = "init" /\ call.cls = "RecipientPointer"
    /\ call.args = <<PyDict(<<<<"id", PyStr("a")>>>>)>>
    /\ call.kwargs = <<<<"recipient_type", PyStr("a")>>>>
    /\ IsOk(ret)
    /\ Get(Val(ret)[3], "recipient_type") = PyStr("a")
    /\ Get(Val(Instantiate(call.cls, call.args, <<>>))[3], "recipient_type") = None


\* the positions of the raw mapping m of class c that hold a raw mapping
\* under the wire name of a field of nested entity type
NestedAt(c, m) ==
    {i \in 1..Len(m) :
       /\ InSeq(m[i][1], Schemas[c]._json_names)
       /\ Schemas[c]._attr_types[IndexOf(m[i][1], Schemas[c]._json_names)] \in Classes
       /\ m[i][2][1] = "dict"}
\* the declared type and the attribute of the wire name key of class c
TypeAt(c, key) == Schemas[c]._attr_types[IndexOf(key, Schemas[c]._json_names)]
AttrAt(c, key) == Schemas[c]._attr_names[IndexOf(key, Schemas[c]._json_names)]
\* the raw mapping m without the positions in S
Without(m, S) ==
    LET RECURSIVE upto(_)
        upto(n) == IF n = 0 THEN <<>>
                   ELSE IF n \in S THEN upto(n - 1)
                   ELSE Append(upto(n - 1), m[n])
    IN  upto(Len(m))
\* nothing but a field left out stands against decoding the mapping m
Sound(c, r) == IsOk(r) \/ IsMissing(r, c)

\* the call decodes a raw mapping that supplies every required field, whose
\* nested raw mappings decode under their declared schemas and whose other
\* fields decode
NestedCase ==
    /\ Returned /\ DictMode /\ call.kwargs = <<>>
    /\ NestedAt(call.cls, Args[1][2]) # {}
    /\ Unsupplied(Len(Schemas[call.cls]._arg_names)) = <<>>
    /\ Sound(call.cls, from_json_obj(call.cls,
                 PyDict(Without(Args[1][2], NestedAt(call.cls, Args[1][2])))))
    /\ \A i \in NestedAt(call.cls, Args[1][2]) :
          IsOk(from_json_obj(TypeAt(call.cls, Args[1][2][i][1]), Args[1][2][i][2]))

\* C17: a raw mapping that holds raw mappings under fields of nested entity
\* type, and is well-shaped throughout, is decoded to an instance, and each
\* such attribute is an instance equal to the nested mapping decoded directly
C17_NestedDecoded ==
    NestedCase =>
       /\ IsOk(ret)
       /\ \A i \in NestedAt(call.cls, Args[1][2]) :
             Agrees(Get(Val(ret)[3], AttrAt(call.cls, Args[1][2][i][1])),
                    from_json_obj(TypeAt(call.cls, Args[1][2][i][1]), Args[1][2][i][2]))

\* a Recipient mapping with all its fields is refused for the SelfLink
\* mapping under links
C17_RecipientLinksRefused ==
    /\ Returned /\ call.op = "from_json_obj" /\ call.cls = "Recipient"
    /\ Len(Args[1][2]) = 8
    /\ Get(Args[1][2], "links") = PyDict(<<<<"self", PyStr("a")>>>>)
    /\ IsOk(from_json_obj("SelfLink", Get(Args[1][2], "links")))
    /\ ret = Raise("TypeError", <<"JSON Attribute", "Recipient", "links">>)


\* C18: after a successful construction every attribute for which the call
\* supplied no input is absent
C18_NoDefaults ==
    Returned /\ Constructs /\ IsOk(ret) =>
       \A i \in 1..Len(Schemas[call.cls]._attr_names) :
          ~SuppliedAt(i) => Get(Val(ret)[3], Schemas[call.cls]._attr_names[i]) = None

\* a DynamicTeam decoded from a mapping of its five required fields holds
\* the status ACTIVE
C18_StatusDefaulted ==
    /\ Returned /\ call.op = "from_json_obj" /\ call.cls = "DynamicTeam"
    /\ Keys(Args[1][2]) = <<"id", "targetName", "recipientType", "externallyOwned",
                            "useEmergencyDevice">>
    /\ IsOk(ret)
    /\ Get(Val(ret)[3], "status") = Member("RecipientStatus", "ACTIVE")
    /\ Get(Val(ret)[3], "links") = None


\* C19: a DynamicTeam mapping without recipientType that holds every other
\* required field, and no nested mapping, is decoded to an instance whose
\* recipient_type is DYNAMIC_TEAM
C19_RecipientTypeDefault ==
    Returned /\ DictMode /\ call.kwargs = <<>> /\ call.cls = "DynamicTeam"
             /\ ~HasKey(Args[1][2], "recipientType")
             /\ Unsupplied(Len(Schemas[call.cls]._arg_names)) = <<"recipient_type">>
             /\ NestedAt(call.cls, Args[1][2]) = {} =>
       /\ IsOk(ret)
       /\ Get(Val(ret)[3], "recipient_type") = Member("RecipientType", "DYNAMIC_TEAM")

\* the four other required fields alone: recipient_type is reported missing
C19_ReportedMissing ==
    /\ Returned /\ call.op = "from_json_obj" /\ call.cls = "DynamicTeam"
    /\ Keys(Args[1][2]) = <<"id", "targetName", "externallyOwned", "useEmergencyDevice">>
    /\ ret = Raise("TypeError", <<"Missing arguments", "DynamicTeam", <<"recipient_type">>>>)


\* C20: the text of a collection is a JSON array with one item for every
\* element, the i-th being what the text of element i holds
C20_CollectionText ==
    pc = "encoded" /\ Val(ret)[1] = "xlist" =>
       /\ IsOk(text)
       /\ IsOk(loads(Val(text)))
       /\ Val(loads(Val(text)))[1] = "list"
       /\ Len(Val(loads(Val(text)))[2]) = Len(Val(ret)[3])
       /\ \A i \in 1..Len(Val(ret)[3]) :
             /\ IsOk(XmattersBase_json(Val(ret)[3][i]))
             /\ Ok(Val(loads(Val(text)))[2][i])
                   = loads(Val(XmattersBase_json(Val(ret)[3][i])))

\* a TestList decoded from an array of two mappings has no text
C20_NotSerializable ==
    /\ pc = "encoded" /\ call.op = "list_from_json_obj" /\ call.cls = "TestList"
    /\ Val(ret)[1] = "xlist" /\ Len(Val(ret)[3]) = 2
    /\ \A i \in 1..2 : IsOk(XmattersBase_json(Val(ret)[3][i]))
    /\ text = Raise("TypeError", <<"is not JSON serializable", "ErrorTest">>)


\* the values of the discriminator that the chain of RecipientList has a
\* branch for
DiscriminatorTable == {"DEVICE", "DYNAMIC_TEAM", "GROUP", "PERSON"}
\* the raw element holds a discriminator that is set and is not in the table
Unrecognized(jobj) ==
    /\ jobj[1] = "dict" /\ HasKey(jobj[2], "recipientType")
    /\ Truthy(Get(jobj[2], "recipientType"))
    /\ \/ Get(jobj[2], "recipientType")[1] # "str"
       \/ Get(jobj[2], "recipientType")[2] \notin DiscriminatorTable
\* the positions of the raw array that are reached and hold such an element
UnrecognizedAt ==
    {i \in 1..Len(ListArg[2]) :
       /\ Unrecognized(ListArg[2][i])
       /\ \A j \in 1..(i - 1) :
             IsOk(RealClassCall(_get_real_class(ListArg[2][j]), ListArg[2][j]))}

\* C21: when RecipientList decodes an array and reaches an element whose
\* recipientType is not in the discriminator table, no collection is
\* returned and the failure is that of a lookup without a match, the
\* ValueError that an enumeration lookup gives
C21_UnknownDiscriminator ==
    Returned /\ DecodesList /\ call.cls = "RecipientList" /\ ListArg[1] = "list"
             /\ UnrecognizedAt # {} =>
       /\ ~IsOk(ret)
       /\ ret[2] = "ValueError"

\* a DynamicTeam element followed by one of recipientType "a": the decoder
\* ends in the UnboundLocalError of its variable new_cls
C21_UnboundLocal ==
    /\ Returned /\ call.op = "list_from_json_obj" /\ call.cls = "RecipientList"
    /\ ListArg[1] = "list" /\ Len(ListArg[2]) = 2
    /\ ListArg[2][1] = WithType(PyStr("DYNAMIC_TEAM"))
    /\ ListArg[2][2] = WithType(PyStr("a"))
    /\ UnrecognizedAt = {2}
    /\ ret = Raise("UnboundLocalError", <<"new_cls">>)


(***************************************************************************)
(* Declared schemas.  A client declares a subclass of XmattersBase by its  *)
(* four sequences; the class statement binds them, and the first           *)
(* construction builds the lookup tables from them.  The state holds the   *)
(* declaration in call and the tables, then the instance, in ret.          *)
(***************************************************************************)
FieldPool == <<"id", "name", "kind", "status">>
\* the declarations: sequences of up to MaxFields entries each, the i-th
\* name being the i-th of the pool, or the first one again as a wire name
Declarations ==
    LET lens == 0..MaxFields
        args(n, S) == [i \in 1..n |-> IF i \in S THEN Opt(FieldPool[i])
                                      ELSE Req(FieldPool[i])]
        wires(n, S) == [i \in 1..n |-> IF i \in S THEN FieldPool[1] ELSE FieldPool[i]]
    IN  UNION {{[module |-> "base", bases |-> {},
                 _arg_names |-> args(n[1], S),
                 _attr_names |-> SubSeq(FieldPool, 1, n[2]),
                 _json_names |-> wires(n[3], R),
                 _attr_types |-> [i \in 1..n[4] |-> "str"]] :
                  S \in SUBSET (1..n[1]), R \in SUBSET (2..n[3])} :
               n \in lens \X lens \X lens \X lens}

SchemaInit ==
    /\ pc = "class"
    /\ call \in Declarations
    /\ ret = Nothing
    /\ text = Nothing
    /\ back = Nothing

\* class Declared(XmattersBase): the four sequences are bound as they are
DefineClass ==
    /\ pc = "class"
    /\ pc' = "defined"
    /\ ret' = Ok(Type("Declared"))
    /\ UNCHANGED <<call, text, back>>

\* Declared(): the attributes and the lookup tables of the new instance
BuildTables ==
    /\ pc = "defined"
    /\ pc' = "tables"
    /\ ret' = Ok(Tables(call, _process_arg_names(call._arg_names).arg_names,
                        _process_arg_names(call._arg_names).req_args))
    /\ UNCHANGED <<call, text, back>>

\* the loop of __confirm_required_args over the tables d as they are, from
\* the i-th name on; r is missing_args so far, or the KeyError of a lookup
RECURSIVE ConfirmLoop(_, _, _, _)
ConfirmLoop(r, d, arg_names, i) ==
    IF ~IsOk(r) \/ i > Len(arg_names) THEN r
    ELSE IF ~Get(reqargs(d), arg_names[i])[2]
    THEN ConfirmLoop(r, d, arg_names, i + 1)
    ELSE IF ~HasKey(argdict(d), arg_names[i])
    THEN Raise("KeyError", <<arg_names[i]>>)
    ELSE IF Get(d, Get(argdict(d), arg_names[i])[2]) = None
    THEN ConfirmLoop(Ok(Append(Val(r), Get(argdict(d), arg_names[i])[2])),
                     d, arg_names, i + 1)
    ELSE ConfirmLoop(r, d, arg_names, i + 1)

\* Declared(), continued: no input is applied, the final check runs, and
\* the instance is returned
ConfirmDeclared ==
    /\ pc = "tables"
    /\ pc' = "returned"
    /\ ret' = LET missing_args ==
                     ConfirmLoop(Ok(<<>>), Val(ret),
                                 _process_arg_names(call._arg_names).arg_names, 1)
              IN  IF IsOk(missing_args)
                  THEN Instance("Declared", Refused("Declared", Val(ret), Val(missing_args)))
                  ELSE missing_args
    /\ UNCHANGED <<call, text, back>>

SchemaNext == DefineClass \/ BuildTables \/ ConfirmDeclared

SchemaSpec == SchemaInit /\ [][SchemaNext]_vars

\* the four sequences agree in length and no wire name repeats
WellFormed(cls) ==
    /\ Len(cls._arg_names) = Len(cls._attr_names)
    /\ Len(cls._attr_names) = Len(cls._json_names)
    /\ Len(cls._json_names) = Len(cls._attr_types)
    /\ \A i, j \in 1..Len(cls._json_names) :
          cls._json_names[i] = cls._json_names[j] => i = j

\* C22: a declaration whose sequences differ in length or whose wire names
\* repeat has failed by the end of its first construction, and not for the
\* inputs: no tables and no instance are left from it
C22_SchemaRejected ==
    ~WellFormed(call) =>
       /\ pc = "tables" => ~IsOk(ret)
       /\ pc = "returned" => ~IsOk(ret) /\ ~IsMissing(ret, "Declared")

\* two optional arguments under one wire name: the instance is returned,
\* and its table of wire names holds one entry
C22_WireNameOverwritten ==
    /\ pc = "returned"
    /\ Len(call._arg_names) = 2 /\ Len(call._attr_names) = 2
    /\ call._json_names = <<"id", "id">>
    /\ Len(call._attr_types) = 2
    /\ IsOk(ret)
    /\ jsondict(Val(ret)[3]) = <<<<"id", PyStr("name")>>>>


(***************************************************************************)
(* Two constructions side by side.  Each runs the statements of            *)
(* XmattersBase.__init__ one at a time, in any interleaving with the       *)
(* other.  text holds what is shared, the class-level declarations; back   *)
(* the declaration each construction has read into its local variables,    *)
(* and ret the __dict__ of each instance so far.                           *)
(***************************************************************************)
\* a faulty _process_arg_names: it strips the optional marker in the list
\* of the class itself
StrippedInPlace(schemas, c) ==
    [schemas EXCEPT ![c]._arg_names =
        [i \in 1..Len(schemas[c]._arg_names) |-> Req(schemas[c]._arg_names[i].name)]]

\* the class-level declarations after _process_arg_names and the two
\* _build functions have run for class c: they write to self alone
ClassAfter(schemas, c) == schemas

PairInit ==
    /\ pc = <<"start", "start">>
    /\ call \in
         LET calls ==
               {Call("init", "RecipientPointer", <<PyStr("a")>>, <<>>, <<>>),
                Call("init", "RecipientPointer", <<PyStr("a"), PyInt(1)>>, <<>>, <<>>),
                Call("init", "RecipientPointer", <<>>,
                     <<<<"recipient_type", PyStr("a")>>>>, <<>>),
                Call("init", "RecipientPointer", <<PyDict(<<<<"id", PyStr("a")>>>>)>>,
                     <<<<"recipient_type", PyStr("b")>>>>, <<>>),
                Call("init", "Conference", <<PyStr("a")>>,
                     <<<<"type", Member("ConferenceHostType", "BRIDGE")>>>>, <<>>),
                Call("init", "Conference",
                     <<PyDict(<<<<"bridgeId", PyStr("a")>>, <<"type", PyStr("a")>>>>)>>,
                     <<>>, <<>>),
                Call("init", "ReferenceByIdAndSelfLink",
                     <<ValidMapping("ReferenceByIdAndSelfLink")>>, <<>>, <<>>)}
         IN  calls \X calls
    /\ ret = <<Nothing, Nothing>>
    /\ text = Schemas
    /\ back = <<Nothing, Nothing>>

\* construction i reads the declaration of its class and builds the
\* attributes and the lookup tables of its instance
Start(i) ==
    /\ pc[i] = "start"
    /\ pc' = [pc EXCEPT ![i] = "tables"]
    /\ back' = [back EXCEPT ![i] = text[call[i].cls]]
    /\ ret' = [ret EXCEPT ![i] =
                 Ok(Tables(text[call[i].cls],
                           _process_arg_names(text[call[i].cls]._arg_names).arg_names,
                           _process_arg_names(text[call[i].cls]._arg_names).req_args))]
    /\ text' = ClassAfter(text, call[i].cls)
    /\ UNCHANGED call

\* construction i applies its mapping or its positional inputs
ApplyUnnamed(i) ==
    /\ pc[i] = "tables"
    /\ pc' = [pc EXCEPT ![i] = "unnamed"]
    /\ ret' = [ret EXCEPT ![i] =
                 Unnamed(call[i].cls, back[i], Val(ret[i]), call[i].args)]
    /\ UNCHANGED <<call, text, back>>

\* construction i applies its named inputs
ApplyNamed(i) ==
    /\ pc[i] = "unnamed"
    /\ pc' = [pc EXCEPT ![i] = "named"]
    /\ ret' = [ret EXCEPT ![i] =
                 Named(call[i].cls, ret[i],
                       _process_arg_names(back[i]._arg_names).arg_names,
                       call[i].kwargs)]
    /\ UNCHANGED <<call, text, back>>

\* construction i runs the final check and returns
Finish(i) ==
    /\ pc[i] = "named"
    /\ pc' = [pc EXCEPT ![i] = "done"]
    /\ ret' = [ret EXCEPT ![i] =
                 Instance(call[i].cls,
                          Confirmed(call[i].cls, ret[i],
                                    _process_arg_names(back[i]._arg_names).arg_names))]
    /\ UNCHANGED <<call, text, back>>

PairNext ==
    \E i \in {1, 2} : Start(i) \/ ApplyUnnamed(i) \/ ApplyNamed(i) \/ Finish(i)

PairSpec == PairInit /\ [][PairNext]_vars

\* C23: whatever the interleaving of two constructions, the class-level
\* declarations stay as they were declared, and each construction ends with
\* the instance or the failure that it gives when it runs alone
C23_NoInterference ==
    /\ text = Schemas
    /\ \A i \in {1, 2} :
          pc[i] = "done" =>
             ret[i] = Instantiate(call[i].cls, call[i].args, call[i].kwargs)

\* a RecipientPointer without recipient_type has been returned while another
\* construction of the class, begun before it, has not yet applied its inputs
C23_Overtaken ==
    /\ pc = <<"tables", "done">>
    /\ call[1].cls = "RecipientPointer" /\ call[2].cls = "RecipientPointer"
    /\ call[2].args = <<PyStr("a")>> /\ call[2].kwargs = <<>>
    /\ IsOk(ret[2])
    /\ Get(Val(ret[2])[3], "recipient_type") = None

\* an input of the call carries, for a declared field, a value that the
\* check of its mode refuses
Mismatching ==
    \/ DictMode /\ Improper # {}
    \/ PositionalMode /\ WrongShaped # {}
    \/ Incompatible # {}
\* the failure is one of the three type mismatches of class c
IsAnyMismatch(r, c) ==
    /\ r[1] = "exc" /\ r[2] = "TypeError"
    /\ r[3][1] \in {"JSON Attribute", "position", "Keyword argument"}
    /\ r[3][2] = c
\* the declared keys of the raw mapping before its first refused value hold
\* values of exactly the declared type, which are stored as they are
PlainBefore ==
    \A i \in 1..(Least(Improper) - 1) :
       LET key == Args[1][2][i][1]
           cls == Schemas[call.cls]
       IN  InSeq(key, cls._json_names) =>
              TypeOf(Args[1][2][i][2])
                 = cls._attr_types[IndexOf(key, cls._json_names)]

ByMode(applied) ==
    LET c == call.cls
        cls == Schemas[c]
        arg_names == _process_arg_names(cls._arg_names).arg_names
        d == Tables(cls, arg_names, _process_arg_names(cls._arg_names).req_args)
        r == CASE applied = "dictionary" ->
                     __process_dictionary_args(c, d, cls._json_names, call.args)
               [] applied = "positional" ->
                     __process_positional_args(c, d, cls._attr_names,
                                               cls._attr_types, call.args)
               [] applied = "none" -> Ok(d)
        self == Instance(c, Confirmed(c, Named(c, r, arg_names, call.kwargs), arg_names))
    IN  IF c = "DynamicTeam" THEN AfterSuper(self) ELSE self
\* the positional inputs are one mapping and nothing else
SoleMapping == Len(call.args) = 1 /\ call.args[1][1] = "dict"

\* C25: a construction hands its positional inputs to dictionary processing
\* exactly when they are one mapping alone, to positional processing when
\* they are any other non-empty list, two or more mappings included, and to
\* neither when there are none; a list of several inputs that starts with a
\* mapping is refused at position 0 unless the first declared type is met
C25_ModeSelection ==
    Returned /\ call.op = "init" =>
       /\ SoleMapping => ret = ByMode("dictionary")
       /\ call.args # <<>> /\ ~SoleMapping => ret = ByMode("positional")
       /\ call.args = <<>> => ret = ByMode("none")
       /\ Len(call.args) >= 2 /\ call.args[1][1] = "dict" =>
             ret = Raise("TypeError", <<"position", call.cls, 0>>)

\* ErrorTest(mapping, mapping) with two mappings that ErrorTest(mapping)
\* accepts is refused at position 0
C25_TwoMappingsPositional ==
    /\ Returned /\ call.op = "init" /\ call.cls = "ErrorTest"
    /\ call.args = <<ValidMapping("ErrorTest"), ValidMapping("ErrorTest")>>
    /\ call.kwargs = <<>>
    /\ IsOk(Instantiate("ErrorTest", <<call.args[1]>>, <<>>))
    /\ ret = Raise("TypeError", <<"position", "ErrorTest", 0>>)

\* the declared type of the named input at position i of the named inputs
KwType(i) == Schemas[call.cls]._attr_types[IndexOf(call.kwargs[i][1], Declared)]
\* the raw shape that dictionary mode takes for the type T although it is no
\* instance of T: a string for an enumeration, a mapping for an entity class
RawShape(T, value) ==
    \/ IsEnumClass(T) /\ value[1] = "str"
    \/ T \in Classes /\ value[1] = "dict"
\* the positional inputs are applied without failure
PositionalApplied ==
    \/ call.args = <<>>
    \/ /\ PositionalMode /\ WrongShaped = {}
       /\ Len(call.args) <= Len(Schemas[call.cls]._attr_types)

\* C26: a positional input is refused with the mismatch of its position only
\* if it is no instance of the type declared there, and the first such input
\* is refused; a named input of a declared name likewise, by its name, once
\* the positional inputs are applied; a boolean for an int field is taken,
\* a string for an enumeration field and a mapping for an entity field are
\* refused
C26_InstanceRule ==
    Returned /\ call.op = "init" =>
       /\ PositionalMode =>
             \A i \in 1..Min(Len(call.args), Len(Schemas[call.cls]._attr_types)) :
                LET T == Schemas[call.cls]._attr_types[i]
                    refused == ret = Raise("TypeError", <<"position", call.cls, i - 1>>)
                IN  /\ refused => i \in WrongShaped /\ i = Least(WrongShaped)
                    /\ i \in WrongShaped => ~IsOk(ret)
                    /\ i \in WrongShaped /\ i = Least(WrongShaped) => refused
                    /\ T = "int" /\ call.args[i][1] = "bool" => ~refused
                    /\ RawShape(T, call.args[i]) => ~IsOk(ret)
                    /\ RawShape(T, call.args[i])
                       /\ (\A j \in 1..(i - 1) : j \notin WrongShaped) => refused
       /\ \A i \in 1..Len(call.kwargs) :
             InSeq(call.kwargs[i][1], Declared) =>
                LET refused == IsKeywordMismatch(ret, call.cls, call.kwargs[i][1])
                IN  /\ refused => i \in Incompatible /\ i = Least(Incompatible)
                    /\ i \in Incompatible => ~IsOk(ret)
                    /\ PositionalApplied /\ i \in Incompatible
                       /\ i = Least(Incompatible) => refused
                    /\ KwType(i) = "int" /\ call.kwargs[i][2][1] = "bool" => ~refused
                    /\ RawShape(KwType(i), call.kwargs[i][2]) => ~IsOk(ret)
                    /\ PositionalApplied /\ RawShape(KwType(i), call.kwargs[i][2])
                       /\ (\A j \in 1..(i - 1) : j \notin Incompatible) => refused

\* Conference("a", v) with v the string of a declared member of
\* ConferenceHostType is refused at position 1
C26_EnumStringRefused ==
    /\ Returned /\ call.op = "init" /\ call.cls = "Conference"
    /\ Len(call.args) = 2 /\ call.kwargs = <<>>
    /\ WrongShaped = {2}
    /\ call.args[2] = Enums["ConferenceHostType"][1][2]
    /\ ret = Raise("TypeError", <<"position", "Conference", 1>>)

\* the collection-typed attributes that receive a named or a positional
\* input, each with the value it receives
CollectionInputs ==
    {<<Schemas[call.cls]._attr_names[IndexOf(call.kwargs[i][1], Declared)],
       call.kwargs[i][2]>> :
       i \in {j \in 1..Len(call.kwargs) :
                /\ InSeq(call.kwargs[j][1], Declared)
                /\ KwType(j) \in ListClasses}}
    \cup {<<Schemas[call.cls]._attr_names[i], call.args[i]>> :
            i \in {j \in 1..Min(Len(call.args), Len(Schemas[call.cls]._attr_types)) :
                     Schemas[call.cls]._attr_types[j] \in ListClasses}}
\* a non-empty instance of a collection class
IsBuilt(v) == v[1] = "xlist" /\ v[3] # <<>>

\* C28: a positional or named construction that is handed, for a
\* collection-typed attribute, a non-empty collection built beforehand does
\* not fail on account of it: it returns an instance whose attribute holds a
\* collection of the elements handed in, or, when required arguments are
\* left out, it reports those
C28_BuiltCollectionKept ==
    Returned /\ call.op = "init" /\ PositionalApplied /\ Incompatible = {} =>
       \A x \in CollectionInputs :
          IsBuilt(x[2]) =>
             \/ IsMissing(ret, call.cls)
             \/ /\ IsOk(ret)
                /\ Get(Val(ret)[3], x[1])[1] = "xlist"
                /\ Get(Val(ret)[3], x[1])[3] = x[2][3]

\* EmailDevice(timeframes=DeviceTimeframeList([timeframe])) is refused before
\* the required arguments are looked at: the timeframe is handed to
\* DeviceTimeframe as its first positional input
C28_ElementRedecoded ==
    /\ Returned /\ call.op = "init" /\ call.cls = "EmailDevice"
    /\ call.args = <<>>
    /\ Len(call.kwargs) = 1 /\ call.kwargs[1][1] = "timeframes"
    /\ IsBuilt(call.kwargs[1][2]) /\ Len(call.kwargs[1][2][3]) = 1
    /\ IsInstance(call.kwargs[1][2], "DeviceTimeframeList")
    /\ IsInstance(call.kwargs[1][2][3][1], "DeviceTimeframe")
    /\ ret = Raise("TypeError", <<"position", "DeviceTimeframe", 0>>)

\* the call decodes or constructs from input that is well-formed JSON: a
\* constructor call, a decoder handed a raw value, or a decoder handed a
\* text that json.loads accepts
WellFormedInput ==
    \/ call.op \in {"init", "from_json_obj", "list_from_json_obj"}
    \/ call.op \in {"from_json_str", "list_from_json_str"}
       /\ IsOk(loads(call.json_self))

\* C27: a construction or a decoding of well-formed input that fails, fails
\* with a TypeError
C27_OnlyTypeError ==
    Returned /\ WellFormedInput /\ ~IsOk(ret) => ret[2] = "TypeError"

\* Conference.from_json_str('{"bridgeId":"a","type":"a"}') leaves with the
\* ValueError of the enumeration lookup
C27_ValueErrorEscapes ==
    /\ Returned /\ call.op = "from_json_str" /\ call.cls = "Conference"
    /\ loads(call.json_self)
          = Ok(PyDict(<<<<"bridgeId", PyStr("a")>>, <<"type", PyStr("a")>>>>))
    /\ ret[1] = "exc" /\ ret[2] = "ValueError"


\* the positions of the named inputs whose attribute also receives a value
\* from the positional inputs or from the mapping
Duplicated ==
    {j \in 1..Len(call.kwargs) :
       /\ InSeq(call.kwargs[j][1], Declared)
       /\ \/ PositionalMode /\ IndexOf(call.kwargs[j][1], Declared) <= Len(Args)
          \/ DictMode /\ HasKey(Args[1][2],
                                Schemas[call.cls]._json_names[
                                    IndexOf(call.kwargs[j][1], Declared)])}
\* the attribute that the j-th named input sets
KwAttr(j) == Schemas[call.cls]._attr_names[IndexOf(call.kwargs[j][1], Declared)]
\* the construction from the positional inputs or the mapping alone is not
\* refused for one of them
UnnamedAccepted(alone) == IsOk(alone) \/ IsMissing(alone, call.cls)

\* C29: named inputs are applied after the positional inputs or the mapping:
\* when an attribute receives a value both ways, the positional inputs or the
\* mapping being accepted on their own and every named value being an
\* instance of its declared type, the construction fails only for required
\* arguments that no input supplies, and the instance it returns holds the
\* named value under every such attribute
C29_NamedApplied ==
    Returned /\ Constructs /\ Duplicated # {} /\ Incompatible = {}
             /\ UnnamedAccepted(Instantiate(call.cls, Args, <<>>)) =>
       /\ IsOk(ret) \/ IsMissing(ret, call.cls)
       /\ IsOk(ret) <=> Unsupplied(Len(Schemas[call.cls]._arg_names)) = <<>>
       /\ IsOk(ret) =>
             \A j \in Duplicated : Get(Val(ret)[3], KwAttr(j)) = call.kwargs[j][2]

\* ErrorTest(1, "a", "a", code=True) returns an instance whose code is True
C29_NamedOverPositional ==
    /\ Returned
    /\ call = Call("init", "ErrorTest", <<PyInt(1), PyStr("a"), PyStr("a")>>,
                   <<<<"code", PyBool(TRUE)>>>>, <<>>)
    /\ IsOk(ret)
    /\ Get(Val(ret)[3], "code") = PyBool(TRUE)


\* the positions of the raw mapping that hold None under a declared wire key
Nulls ==
    {i \in 1..Len(Args[1][2]) :
       /\ InSeq(Args[1][2][i][1], Schemas[call.cls]._json_names)
       /\ Args[1][2][i][2] = None}
\* the declared argument behind the wire key at position i of the mapping
ArgOf(i) ==
    Schemas[call.cls]._arg_names[IndexOf(Args[1][2][i][1],
                                         Schemas[call.cls]._json_names)]

====
